---- MODULE Spec2Model ----
(***************************************************************************)
(* Model of the review backend: the review controller                     *)
(* (src/src/controllers/reviewController.js) and the Shopify service      *)
(* (src/unnamed/part_000, class ShopifyService).                          *)
(*                                                                         *)
(* JavaScript values are boxed so that values of different types can be   *)
(* compared: a string is [str |-> <<characters>>], a number [num |-> n],  *)
(* a boolean [bool |-> b]; undefined, null and NaN are constants. A media  *)
(* payload of millions of characters is [str |-> head, repeat |-> n]: the  *)
(* characters of head followed by n base64 characters.                     *)
(***************************************************************************)
EXTENDS Integers, Sequences, FiniteSets

VARIABLES
  mode,        \* which scenario the behaviour belongs to
  objects,     \* platform: the metaobjects, by id (position in the sequence)
  index,       \* platform: product -> value of the custom.ratings metafield
  req,         \* createReview: the state of each inbound request
  submission,  \* mapper scenario: the validated submission
  created,     \* mapper scenario: the field list sent by createProductRating
  fetched,     \* mapper scenario: the result of getMetaobjectById
  reviews,     \* stats scenario: what getProductReviews returns
  stats,       \* stats scenario: the response of getReviewStats
  pub,         \* publish scenario: the state of publishAllDraftRatings
  svc,         \* service scenarios: one call of a service method and its result
  server,      \* endpoint scenario: the requests the process has served
  limiter      \* limiter scenario: the rate limiters' counters and the clock

vars ==
  <<mode, objects, index, req, submission, created, fetched, reviews, stats, pub,
    svc, server, limiter>>

----------------------------------------------------------------------------
(* JavaScript values *)

Undefined == [undef |-> TRUE]
Null == [null |-> TRUE]
NaN == [nan |-> TRUE]
Str(s) == [str |-> s]
Long(head, n) == [str |-> head, repeat |-> n]
Num(n) == [num |-> n]
Bool(b) == [bool |-> b]

IsStr(v) == "str" \in DOMAIN v
\* s.length
Length(v) == Len(v.str) + (IF "repeat" \in DOMAIN v THEN v.repeat ELSE 0)
IsNum(v) == DOMAIN v = {"num"}
IsBool(v) == DOMAIN v = {"bool"}
IsFile(v) == DOMAIN v = {"file"}

\* JavaScript truthiness: what `x || y`, `x ? a : b` and `if (x)` test.
Truthy(v) ==
  CASE IsStr(v) -> Length(v) # 0
    [] IsNum(v) -> v.num # 0
    [] IsBool(v) -> v.bool
    [] IsFile(v) -> TRUE
    [] OTHER -> FALSE

\* x || y
Or(x, y) == IF Truthy(x) THEN x ELSE y

DigitChars == <<"0", "1", "2", "3", "4", "5", "6", "7", "8", "9">>
IsDigit(c) == \E i \in 1..10 : DigitChars[i] = c
DigitValue(c) == (CHOOSE i \in 1..10 : DigitChars[i] = c) - 1

RECURSIVE Digits(_)
Digits(n) ==
  IF n < 10 THEN <<DigitChars[n + 1]>>
  ELSE Digits(n \div 10) \o <<DigitChars[(n % 10) + 1]>>

TrueStr == <<"t", "r", "u", "e">>
FalseStr == <<"f", "a", "l", "s", "e">>

\* Number.prototype.toString / Boolean.prototype.toString / String.prototype.toString
toString(v) ==
  CASE IsNum(v) -> IF v.num < 0 THEN Str(<<"-">> \o Digits(-v.num)) ELSE Str(Digits(v.num))
    [] IsBool(v) -> IF v.bool THEN Str(TrueStr) ELSE Str(FalseStr)
    [] OTHER -> v

\* x?.toString(): undefined and null short-circuit to undefined
OptToString(v) == IF v = Undefined \/ v = Null THEN Undefined ELSE toString(v)

\* s.includes(t)
Contains(s, t) == \E i \in 0..(Len(s) - Len(t)) : SubSeq(s, i + 1, i + Len(t)) = t

\* s.endsWith(t)
EndsWith(s, t) == Len(s) >= Len(t) /\ SubSeq(s, Len(s) - Len(t) + 1, Len(s)) = t

\* s.split(separator).pop() for a separator of one character: what follows
\* the last separator, the whole of s when it has none
LastSegment(s, separator) ==
  LET at == {i \in 1..Len(s) : s[i] = separator}
  IN IF at = {} THEN s
     ELSE SubSeq(s, (CHOOSE i \in at : \A j \in at : j <= i) + 1, Len(s))

RECURSIVE DigitPrefix(_, _)
\* value of the longest prefix of digits of s, acc the value read so far
DigitPrefix(s, acc) ==
  IF s = <<>> \/ ~IsDigit(Head(s)) THEN acc
  ELSE DigitPrefix(Tail(s), 10 * acc + DigitValue(Head(s)))

RECURSIVE SkipSpaces(_)
SkipSpaces(s) == IF s # <<>> /\ Head(s) = " " THEN SkipSpaces(Tail(s)) ELSE s

\* parseInt(x): the argument is converted to a string (undefined -> "undefined"),
\* leading white space is skipped, an optional sign is read, then the longest
\* prefix of decimal digits; NaN when there is no digit.
parseInt(v) ==
  IF ~IsStr(v) THEN (IF IsNum(v) THEN v ELSE NaN)
  ELSE LET s == SkipSpaces(v.str)
           neg == s # <<>> /\ Head(s) = "-"
           t == IF s # <<>> /\ Head(s) \in {"-", "+"} THEN Tail(s) ELSE s
       IN IF t = <<>> \/ ~IsDigit(Head(t)) THEN NaN
          ELSE Num(IF neg THEN -DigitPrefix(t, 0) ELSE DigitPrefix(t, 0))

----------------------------------------------------------------------------
(* Review record mapper: createProductRating (submission -> field list) and *)
(* getMetaobjectById (field list -> typed record).                          *)

NotYet == [none |-> TRUE]

\* obj.key of a JavaScript object: undefined when the key is absent
Get(obj, k) == IF k \in DOMAIN obj THEN obj[k] ELSE Undefined

Field(k, v) == [key |-> k, value |-> v]

\* the moderation default of a new record
ModerationFieldApproved == Field("is_approved", Str(TrueStr))

\* { key: "is_approved", value: "false" }
ModerationField == Field("is_approved", Str(FalseStr))

\* the `fields` array literal of createProductRating
RatingFields(ratingData, now) ==
  << Field("product_id", toString(ratingData.productId)),
     Field("rating", toString(ratingData.rating)),
     Field("title", ratingData.title),
     Field("body", ratingData.body),
     Field("author_name", ratingData.authorName),
     Field("author_email", ratingData.authorEmail),
     Field("is_verified_buyer", toString(ratingData.isVerifiedBuyer)),
     ModerationField,
     Field("created_at", now),
     Field("age_range", Or(ratingData.ageRange, Str(<<>>))),
     Field("size_purchased", Or(ratingData.sizePurchased, Str(<<>>))),
     Field("fit_rating", Or(OptToString(ratingData.fitRating), Str(<<>>))),
     Field("shipping_rating", Or(OptToString(ratingData.shippingRating), Str(<<>>))),
     Field("recommends_product", Or(OptToString(ratingData.recommendsProduct), Str(FalseStr))) >>

FieldKeys(fields) == {fields[i].key : i \in 1..Len(fields)}

\* fields.forEach((field) => { obj[field.key] = field.value }): the last value wins
FieldsObject(fields) ==
  [k \in FieldKeys(fields) |->
     fields[CHOOSE i \in 1..Len(fields) :
              /\ fields[i].key = k
              /\ \A j \in (i + 1)..Len(fields) : fields[j].key # k].value]

TypedKeys ==
  {"rating", "fitRating", "shippingRating", "isVerifiedBuyer", "isApproved",
   "recommendsProduct", "createdAt", "authorName", "authorEmail", "title", "body",
   "ageRange", "sizePurchased", "image", "video"}

\* the typed keys of the object literal returned by getMetaobjectById
TypedValue(fields, k) ==
  CASE k = "rating" -> Or(parseInt(Get(fields, "rating")), Num(0))
    [] k = "fitRating" ->
         IF Truthy(Get(fields, "fit_rating")) THEN parseInt(Get(fields, "fit_rating")) ELSE Null
    [] k = "shippingRating" ->
         IF Truthy(Get(fields, "shipping_rating"))
         THEN parseInt(Get(fields, "shipping_rating")) ELSE Null
    [] k = "isVerifiedBuyer" -> Bool(Get(fields, "is_verified_buyer") = Str(TrueStr))
    [] k = "isApproved" -> Bool(Get(fields, "is_approved") = Str(TrueStr))
    [] k = "recommendsProduct" -> Bool(Get(fields, "recommends_product") = Str(TrueStr))
    [] k = "createdAt" -> Get(fields, "created_at")
    [] k = "authorName" -> Get(fields, "author_name")
    [] k = "authorEmail" -> Get(fields, "author_email")
    [] k = "title" -> Get(fields, "title")
    [] k = "body" -> Get(fields, "body")
    [] k = "ageRange" -> Or(Get(fields, "age_range"), Null)
    [] k = "sizePurchased" -> Or(Get(fields, "size_purchased"), Null)
    [] k = "image" -> Or(Get(fields, "image"), Null)
    [] k = "video" -> Or(Get(fields, "video"), Null)

\* { id, handle, type, ...fields, rating: ..., ... }: a later key overrides an earlier one
ReviewRecord(metaobject) ==
  LET fields == FieldsObject(metaobject.fields)
  IN [k \in {"id", "handle", "type"} \cup DOMAIN fields \cup TypedKeys |->
        IF k \in TypedKeys THEN TypedValue(fields, k)
        ELSE IF k \in DOMAIN fields THEN fields[k]
        ELSE metaobject[k]]

\* an error raised to the caller
Thrown(message) == [threw |-> message]

\* a catch block that raises the error again, as the other queries' do
getMetaobjectByIdRethrows(response) ==
  IF response.kind = "throw" THEN Thrown("Failed to fetch metaobject")
  ELSE IF response.metaobject = Null THEN Null
  ELSE ReviewRecord(response.metaobject)

\* getMetaobjectById, given what this.client.request does: it throws
\* (response.kind = "throw") or returns response.metaobject, null when the
\* platform holds no object of that id.
getMetaobjectById(response) ==
  IF response.kind = "throw" THEN Null
  ELSE IF response.metaobject = Null THEN Null
  ELSE ReviewRecord(response.metaobject)

----------------------------------------------------------------------------
(* JSON text of the rating index: JSON.stringify of an array of id strings, *)
(* and JSON.parse of a metafield value. Ids hold no character that          *)
(* JSON.stringify escapes.                                                  *)

Quote == "\""

RECURSIVE JoinIds(_)
JoinIds(items) ==
  IF items = <<>> THEN <<>>
  ELSE <<Quote>> \o Head(items).str \o <<Quote>>
       \o (IF Tail(items) = <<>> THEN <<>> ELSE <<",">> \o JoinIds(Tail(items)))

\* JSON.stringify(updatedRatings)
JSONstringify(items) == Str(<<"[">> \o JoinIds(items) \o <<"]">>)

SyntaxError == [ok |-> FALSE]
Parsed(v, rest) == [ok |-> TRUE, value |-> v, rest |-> rest]

RECURSIVE UpToQuote(_, _)
\* the characters of t before the first quote (acc: those read so far)
UpToQuote(t, acc) ==
  IF t = <<>> THEN SyntaxError
  ELSE IF Head(t) = Quote THEN Parsed(Str(acc), Tail(t))
  ELSE UpToQuote(Tail(t), Append(acc, Head(t)))

RECURSIVE DigitRun(_, _)
DigitRun(t, acc) ==
  IF t # <<>> /\ IsDigit(Head(t)) THEN DigitRun(Tail(t), Append(acc, Head(t)))
  ELSE Parsed(Num(DigitPrefix(acc, 0)), t)

\* a JSON string or number at the head of t
ParseScalar(t) ==
  IF t = <<>> THEN SyntaxError
  ELSE IF Head(t) = Quote THEN UpToQuote(Tail(t), <<>>)
  ELSE IF IsDigit(Head(t)) THEN DigitRun(t, <<>>)
  ELSE SyntaxError

RECURSIVE ParseElements(_, _)
\* the elements of an array after "[" or ",": t begins with an element
ParseElements(t, acc) ==
  LET e == ParseScalar(t)
  IN IF ~e.ok THEN SyntaxError
     ELSE IF e.rest = <<>> THEN SyntaxError
     ELSE IF Head(e.rest) = "]" THEN Parsed(Append(acc, e.value), Tail(e.rest))
     ELSE IF Head(e.rest) = "," THEN ParseElements(Tail(e.rest), Append(acc, e.value))
     ELSE SyntaxError

\* JSON.parse(text): [ok |-> FALSE] when it throws a SyntaxError; an array is
\* returned as [arr |-> elements]
JSONparse(text) ==
  LET t == text.str
      v == IF t # <<>> /\ Head(t) = "["
           THEN (IF Tail(t) # <<>> /\ Head(Tail(t)) = "]"
                 THEN Parsed(<<>>, Tail(Tail(t)))
                 ELSE LET a == ParseElements(Tail(t), <<>>)
                      IN IF a.ok THEN Parsed(a.value, a.rest) ELSE SyntaxError)
           ELSE ParseScalar(t)
      isArray == t # <<>> /\ Head(t) = "["
  IN IF ~v.ok \/ v.rest # <<>> THEN SyntaxError
     ELSE [ok |-> TRUE, value |-> IF isArray THEN [arr |-> v.value] ELSE v.value]

IsArr(v) == DOMAIN v = {"arr"}

----------------------------------------------------------------------------
(* Request validation: createReviewSchema.validate(req.body). Joi stops at  *)
(* the first failing key (abortEarly) and rejects keys the schema does not  *)
(* name; bodies carry each value with its JSON type already.                *)

TitleMax == 200
BodyMax == 2000
AuthorNameMax == 100
AgeRangeMax == 50
SizePurchasedMax == 50
RatingMin == 1
RatingMax == 5

\* a string rule whose .required() was left out
StringRuleOptional(v, lo, hi, required) ==
  IF v = Undefined THEN "ok"
  ELSE IF ~IsStr(v) THEN "string.base"
  ELSE IF v.str = <<>> THEN "string.empty"
  ELSE IF Len(v.str) < lo THEN "string.min"
  ELSE IF Len(v.str) > hi THEN "string.max"
  ELSE "ok"

\* Joi.string().min(lo).max(hi), .required() or .optional()
StringRule(v, lo, hi, required) ==
  IF v = Undefined THEN (IF required THEN "any.required" ELSE "ok")
  ELSE IF ~IsStr(v) THEN "string.base"
  ELSE IF v.str = <<>> THEN "string.empty"
  ELSE IF Len(v.str) < lo THEN "string.min"
  ELSE IF Len(v.str) > hi THEN "string.max"
  ELSE "ok"

\* Joi.string().optional()
PlainStringRule(v) ==
  IF v = Undefined THEN "ok"
  ELSE IF ~IsStr(v) THEN "string.base"
  ELSE IF Length(v) = 0 THEN "string.empty"
  ELSE "ok"

\* Joi.number().integer().min(lo).max(hi)
IntegerRule(v, lo, hi, required) ==
  IF v = Undefined THEN (IF required THEN "any.required" ELSE "ok")
  ELSE IF ~IsNum(v) THEN "number.base"
  ELSE IF v.num < lo THEN "number.min"
  ELSE IF v.num > hi THEN "number.max"
  ELSE "ok"

\* Joi.number().integer().positive().required()
PositiveRule(v) ==
  IF v = Undefined THEN "any.required"
  ELSE IF ~IsNum(v) THEN "number.base"
  ELSE IF v.num <= 0 THEN "number.positive"
  ELSE "ok"

\* Joi.boolean()
BooleanRule(v) == IF v = Undefined \/ IsBool(v) THEN "ok" ELSE "boolean.base"

\* Joi.string().email().required(): an address has a local part and a domain
EmailRule(v) ==
  IF v = Undefined THEN "any.required"
  ELSE IF ~IsStr(v) THEN "string.base"
  ELSE IF v.str = <<>> THEN "string.empty"
  ELSE IF \E i \in 2..(Len(v.str) - 1) : v.str[i] = "@" THEN "ok"
  ELSE "string.email"

SchemaKeys ==
  <<"productId", "rating", "title", "body", "authorName", "authorEmail",
    "isVerifiedBuyer", "ageRange", "sizePurchased", "fitRating", "shippingRating",
    "recommendsProduct", "image", "video">>

\* the rule of createReviewSchema that key k of the body breaks, "ok" if none
KeyRule(b, k) ==
  CASE k = "productId" -> PositiveRule(b.productId)
    [] k = "rating" -> IntegerRule(b.rating, RatingMin, RatingMax, TRUE)
    [] k = "title" -> StringRule(b.title, 1, TitleMax, TRUE)
    [] k = "body" -> StringRule(b.body, 1, BodyMax, TRUE)
    [] k = "authorName" -> StringRule(b.authorName, 1, AuthorNameMax, TRUE)
    [] k = "authorEmail" -> EmailRule(b.authorEmail)
    [] k = "isVerifiedBuyer" -> BooleanRule(b.isVerifiedBuyer)
    [] k = "ageRange" -> StringRule(b.ageRange, 0, AgeRangeMax, FALSE)
    [] k = "sizePurchased" -> StringRule(b.sizePurchased, 0, SizePurchasedMax, FALSE)
    [] k = "fitRating" -> IntegerRule(b.fitRating, RatingMin, RatingMax, TRUE)
    [] k = "shippingRating" -> IntegerRule(b.shippingRating, RatingMin, RatingMax, FALSE)
    [] k = "recommendsProduct" -> BooleanRule(b.recommendsProduct)
    [] k = "image" -> PlainStringRule(b.image)
    [] k = "video" -> PlainStringRule(b.video)

\* error.details of createReviewSchema.validate(b): empty when b is valid
ValidationDetails(b) ==
  LET bad == {i \in 1..Len(SchemaKeys) : KeyRule(b, SchemaKeys[i]) # "ok"}
  IN IF bad # {}
     THEN LET i == CHOOSE i \in bad : \A j \in bad : i <= j
          IN <<[field |-> SchemaKeys[i], rule |-> KeyRule(b, SchemaKeys[i])]>>
     ELSE IF b.isApproved # Undefined
     THEN <<[field |-> "isApproved", rule |-> "object.unknown"]>>
     ELSE <<>>

\* value of createReviewSchema.validate(b): isVerifiedBuyer defaults to false
ValidatedValue(b) ==
  [k \in {SchemaKeys[i] : i \in 1..Len(SchemaKeys)} |->
     IF k = "isVerifiedBuyer" /\ b[k] = Undefined THEN Bool(FALSE) ELSE b[k]]

DataPrefix == <<"d", "a", "t", "a", ":">>
Base64Mark == <<"b", "a", "s", "e", "6", "4", ",">>

\* the end of a match of /^data:[^;]+;base64,/ in s, 0 when there is none
DataUrlPrefixLength(s) ==
  IF Len(s) > Len(DataPrefix) /\ SubSeq(s, 1, Len(DataPrefix)) = DataPrefix
     /\ \E k \in (Len(DataPrefix) + 2)..Len(s) : s[k] = ";"
  THEN LET k == CHOOSE k \in (Len(DataPrefix) + 1)..Len(s) :
                  s[k] = ";" /\ \A j \in (Len(DataPrefix) + 1)..(k - 1) : s[j] # ";"
       IN IF k > Len(DataPrefix) + 1
             /\ Len(s) >= k + Len(Base64Mark)
             /\ SubSeq(s, k + 1, k + Len(Base64Mark)) = Base64Mark
          THEN k + Len(Base64Mark)
          ELSE 0
  ELSE 0

\* convertBase64ToFile: the data URL prefix is cut off, the rest decoded to a
\* buffer of three bytes for four characters; the file is named and typed with
\* the MIME type the controller passes, never one read from the payload
convertBase64ToFile(base64Data, type, mimeType) ==
  [file |-> [size |-> (3 * (Length(base64Data) - DataUrlPrefixLength(base64Data.str))) \div 4,
             type |-> mimeType, name |-> type]]

----------------------------------------------------------------------------
(* The platform and the createReview requests.                              *)

\* concurrent requests of the submission scenario
NumRequests == 2
Products == {1, 2}

SampleTitle == Str(<<"o", "k">>)
SampleBody == Str(<<"f", "i", "t", "s">>)
SampleName == Str(<<"A", "n", "n">>)
SampleEmail == Str(<<"a", "@", "b", ".", "c">>)
SamplePayload == Str(<<"A", "A", "A", "A">>)
SampleNow == Str(<<"2", "0", "2", "4", "-", "0", "1", "-", "0", "1", "T", "0", "0", "Z">>)

BaseBody ==
  [productId |-> Num(1), rating |-> Num(5), title |-> SampleTitle, body |-> SampleBody,
   authorName |-> SampleName, authorEmail |-> SampleEmail, isVerifiedBuyer |-> Undefined,
   ageRange |-> Undefined, sizePurchased |-> Undefined, fitRating |-> Num(3),
   shippingRating |-> Undefined, recommendsProduct |-> Undefined, image |-> Undefined,
   video |-> Undefined, isApproved |-> Undefined]

\* the request bodies the clients send, without media
PlainBodies ==
  { BaseBody,
    [BaseBody EXCEPT !.productId = Num(2), !.rating = Num(2),
                     !.recommendsProduct = Bool(TRUE), !.isVerifiedBuyer = Bool(TRUE)],
    [BaseBody EXCEPT !.authorName = Undefined],
    [BaseBody EXCEPT !.body = Undefined],
    [BaseBody EXCEPT !.isApproved = Bool(TRUE)] }

\* a PDF document sent as a data URL
PdfPayload == Str(<<"d", "a", "t", "a", ":", "a", "p", "p", "l", "i", "c", "a", "t", "i", "o", "n", "/", "p", "d", "f", ";", "b", "a", "s", "e", "6", "4", ",", "A", "A", "A", "A">>)

\* the request bodies the clients send, with media: small payloads, a video
\* that is no video, an image of 7 000 000 base64 characters (5.25 MB of
\* data), one of 11 000 000 characters
MediaBodies ==
  { [BaseBody EXCEPT !.image = SamplePayload],
    [BaseBody EXCEPT !.video = SamplePayload, !.rating = Num(4)],
    [BaseBody EXCEPT !.image = SamplePayload, !.video = SamplePayload, !.rating = Num(1)],
    [BaseBody EXCEPT !.image = SamplePayload, !.title = Undefined],
    [BaseBody EXCEPT !.video = PdfPayload, !.rating = Num(3)],
    [BaseBody EXCEPT !.image = Long(<<>>, 7 * 1000 * 1000), !.rating = Num(2)],
    [BaseBody EXCEPT !.image = Long(<<>>, 11 * 1000 * 1000), !.rating = Num(2)] }

Bodies == IF mode = "upload" THEN MediaBodies ELSE PlainBodies

\* id of the n-th metaobject of the platform
MetaobjectId(n) == Str(<<"M">> \o Digits(n))
\* id of the file record registered for a media field of request r
FileId(r, media) == Str(<<"F">> \o Digits(r) \o <<IF media = "image" THEN "i" ELSE "v">>)

\* an object created before any request of the behaviour, approved by a moderator
LegacyFields ==
  << Field("product_id", Str(<<"1">>)), Field("rating", Str(<<"4">>)),
     Field("title", SampleTitle), Field("body", SampleBody),
     Field("author_name", SampleName), Field("author_email", SampleEmail),
     Field("is_verified_buyer", Str(TrueStr)), Field("is_approved", Str(TrueStr)),
     Field("created_at", SampleNow) >>

Metaobject(n, fields, status) ==
  [id |-> MetaobjectId(n), handle |-> Str(<<"h">> \o Digits(n)),
   type |-> Str(<<"p", "r">>), fields |-> fields, status |-> status]

IdleRequest ==
  [pc |-> "idle", body |-> NotYet, value |-> NotYet, fields |-> <<>>, media |-> "none", calls |-> <<>>,
   target |-> NotYet, registered |-> <<>>,
   created |-> NotYet, existing |-> NotYet, response |-> NotYet]

\* values the custom.ratings metafield of a product can hold when a behaviour
\* starts: none, the JSON array this service wrote, text that is not JSON
InitialIndexValues == {Null, JSONstringify(<<MetaobjectId(1)>>), Str(<<"x">>)}

InitCreate ==
  /\ mode = "create"
  /\ objects = <<Metaobject(1, LegacyFields, "ACTIVE")>>
  /\ \E v \in InitialIndexValues : index = [p \in Products |-> v]
  /\ req = [r \in 1..NumRequests |-> IdleRequest]
  /\ submission = NotYet /\ created = NotYet /\ fetched = NotYet
  /\ reviews = NotYet /\ stats = NotYet /\ pub = NotYet
  /\ svc = NotYet /\ server = NotYet /\ limiter = NotYet

\* the media scenario follows one request: its outbound calls are sequential and
\* touch no state another request reads before metaobjectCreate
InitUpload ==
  /\ mode = "upload"
  /\ objects = <<Metaobject(1, LegacyFields, "ACTIVE")>>
  /\ \E v \in InitialIndexValues : index = [p \in Products |-> v]
  /\ req = <<IdleRequest>>
  /\ submission = NotYet /\ created = NotYet /\ fetched = NotYet
  /\ reviews = NotYet /\ stats = NotYet /\ pub = NotYet
  /\ svc = NotYet /\ server = NotYet /\ limiter = NotYet

InRequestMode == mode \in {"create", "upload", "lifecycle"}

Others == <<submission, created, fetched, reviews, stats, pub, svc, server, limiter>>

\* res.status(code).json(payload)
Respond(r, code, payload) ==
  [req[r] EXCEPT !.pc = "done", !.response = [status |-> code, json |-> payload]]

\* the video block placed before the image block
NextStepVideoFirst(value, after) ==
  IF after = "start" /\ Truthy(value.video) THEN [pc |-> "stage", media |-> "video"]
  ELSE IF after \in {"start", "video"} /\ Truthy(value.image)
  THEN [pc |-> "stage", media |-> "image"]
  ELSE [pc |-> "create", media |-> "none"]

\* the video upload only for a submission without image
NextStepOneMedia(value, after) ==
  IF after = "start" /\ Truthy(value.image) THEN [pc |-> "stage", media |-> "image"]
  ELSE IF after = "start" /\ Truthy(value.video)
  THEN [pc |-> "stage", media |-> "video"]
  ELSE [pc |-> "create", media |-> "none"]

\* where createProductRating goes after the media field `after` is settled:
\* the video upload when a video was supplied, else metaobjectCreate
NextStep(value, after) ==
  IF after = "start" /\ Truthy(value.image) THEN [pc |-> "stage", media |-> "image"]
  ELSE IF after \in {"start", "image"} /\ Truthy(value.video)
  THEN [pc |-> "stage", media |-> "video"]
  ELSE [pc |-> "create", media |-> "none"]

Failure(message) == [success |-> FALSE, message |-> message]

\* express.json({ limit: "10mb" })
JsonLimit == 10 * 1024 * 1024

RECURSIVE StringLengths(_, _)
\* the characters of the string values of the body's keys
StringLengths(b, keys) ==
  IF keys = <<>> THEN 0
  ELSE (IF IsStr(b[Head(keys)]) THEN Length(b[Head(keys)]) ELSE 0)
       + StringLengths(b, Tail(keys))

\* the length of the request's JSON text, from below: its string values
BodyLength(b) == StringLengths(b, SchemaKeys)

\* createReview up to its first outbound call: the body parser's limit (its
\* error is answered 413 by the global error handler), validation, the 400
\* response, the media conversion and the field list of createProductRating
createReview(r, b) ==
  /\ InRequestMode
  /\ req[r].pc = "idle"
  /\ LET details == ValidationDetails(b)
         v0 == ValidatedValue(b)
         v1 == IF Truthy(v0.image)
               THEN [v0 EXCEPT !.image = convertBase64ToFile(v0.image, "image", "image/jpeg")]
               ELSE v0
         value == IF Truthy(v1.video)
                  THEN [v1 EXCEPT !.video = convertBase64ToFile(v1.video, "video", "video/mp4")]
                  ELSE v1
         next == NextStep(value, "start")
     IN req' = [req EXCEPT ![r] =
          IF BodyLength(b) > JsonLimit
          THEN [Respond(r, 413, Failure("request entity too large")) EXCEPT !.body = b]
          ELSE IF details # <<>>
          THEN [Respond(r, 400, [success |-> FALSE, message |-> "Validation error",
                                 errors |-> details]) EXCEPT !.body = b]
          ELSE [req[r] EXCEPT !.body = b, !.value = value,
                              !.fields = RatingFields(value, SampleNow),
                              !.pc = next.pc, !.media = next.media]]
  /\ UNCHANGED <<mode, objects, index, Others>>

\* an outbound call of request r and how it ended
Call(r, name, outcome) == [call |-> name, media |-> req[r].media, outcome |-> outcome]

\* a media failure that reaches createReview's catch block
MediaFailedPropagates(r, call) ==
  [Respond(r, 500, Failure("Failed to create review")) EXCEPT !.calls = Append(@, call)]

\* a failed transfer that is followed by the registration all the same
MediaFailedKeepsGoing(r, call) ==
  LET next == NextStep(req[r].value, req[r].media)
  IN IF call.call = "upload"
     THEN [req[r] EXCEPT !.calls = Append(@, call), !.pc = "register"]
     ELSE [req[r] EXCEPT !.calls = Append(@, call), !.pc = next.pc, !.media = next.media]

\* the catch block of createProductRating around processFileUpload: the field
\* is left out and the next step follows
MediaFailed(r, call) ==
  LET next == NextStep(req[r].value, req[r].media)
  IN [req[r] EXCEPT !.calls = Append(@, call), !.pc = next.pc, !.media = next.media]

Parameter(name, value) == [name |-> Str(name), value |-> Str(value)]

ExternalVideoId == <<"e", "x", "t", "e", "r", "n", "a", "l", "_", "v", "i", "d", "e", "o", "_", "i", "d">>

\* stagedTargets[0] of a stagedUploadsCreate response: targets of a bucket,
\* their key parameter first or last, with a path or a bare name, the URL with
\* or without a closing slash; one without a key parameter; the target of a
\* video host; none at all
StagedTargets ==
  { [url |-> Str(<<"s", ".", "i", "o", "/", "b", "/">>), resourceUrl |-> Str(<<"s", ".", "i", "o", "/", "r">>),
     parameters |-> <<Parameter(<<"a", "c", "l">>, <<"p", "r", "i", "v", "a", "t", "e">>), Parameter(<<"k", "e", "y">>, <<"t", "m", "p", "/", "9", "/", "a", ".", "j", "p", "g">>)>>],
    [url |-> Str(<<"s", ".", "i", "o", "/", "b">>), resourceUrl |-> Str(<<"s", ".", "i", "o", "/", "r">>),
     parameters |-> <<Parameter(<<"k", "e", "y">>, <<"a", ".", "j", "p", "g">>), Parameter(<<"a", "c", "l">>, <<"p", "r", "i", "v", "a", "t", "e">>)>>],
    [url |-> Str(<<"s", ".", "i", "o", "/", "b", "/">>), resourceUrl |-> Str(<<"s", ".", "i", "o", "/", "r">>),
     parameters |-> <<Parameter(<<"a", "c", "l">>, <<"p", "r", "i", "v", "a", "t", "e">>)>>],
    [url |-> Str(<<"s", ".", "i", "o", "/", "b">>), resourceUrl |-> Str(<<"v", ".", "i", "o", "?", "e", "x", "t", "e", "r", "n", "a", "l", "_", "v", "i", "d", "e", "o", "_", "i", "d", "=", "7">>),
     parameters |-> <<Parameter(<<"k", "e", "y">>, <<"t", "m", "p", "/", "9", "/", "a", ".", "j", "p", "g">>)>>],
    Undefined }

\* processFileUpload step 1: stagedUploadsCreate; the target is read right
\* away, which throws when the response has none
createStagedUpload(r) ==
  /\ InRequestMode
  /\ req[r].pc = "stage"
  /\ \E outcome \in {"ok", "userErrors", "throw"}, target \in StagedTargets :
       req' = [req EXCEPT ![r] =
         IF outcome = "ok" /\ target # Undefined
         THEN [req[r] EXCEPT !.calls = Append(@, Call(r, "stage", outcome)),
                             !.target = target, !.pc = "upload"]
         ELSE MediaFailed(r, Call(r, "stage", outcome))]
  /\ UNCHANGED <<mode, objects, index, Others>>

\* processFileUpload step 2: the POST to the staged URL; !response.ok throws
uploadFileToStagedUrl(r) ==
  /\ InRequestMode
  /\ req[r].pc = "upload"
  /\ \E outcome \in {"ok", "non2xx", "throw"} :
       req' = [req EXCEPT ![r] =
         IF outcome = "ok"
         THEN [req[r] EXCEPT !.calls = Append(@, Call(r, "upload", outcome)), !.pc = "register"]
         ELSE MediaFailed(r, Call(r, "upload", outcome))]
  /\ UNCHANGED <<mode, objects, index, Others>>

TypeError == [threw |-> "TypeError"]

\* stagedTarget.parameters.find((p) => p.name === "key")
KeyParam(target) ==
  LET at == {i \in 1..Len(target.parameters) : target.parameters[i].name = Str(<<"k", "e", "y">>)}
  IN IF at = {} THEN Undefined
     ELSE target.parameters[CHOOSE i \in at : \A j \in at : i <= j]

\* the URL taken for the closing-slash test, without the test
ResourceOfUntrimmed(target) ==
  IF Contains(target.resourceUrl.str, ExternalVideoId)
  THEN [resourceUrl |-> target.resourceUrl, stagedFilename |-> Null]
  ELSE IF KeyParam(target) = Undefined THEN TypeError
  ELSE [resourceUrl |-> Str(target.url.str \o <<"/">> \o KeyParam(target).value.str),
        stagedFilename |-> Str(LastSegment(KeyParam(target).value.str, "/"))]

\* processFileUpload step 3: the resource URL and the file name handed to
\* createFileRecord; reading the value of a key parameter that is not there
\* throws
ResourceOf(target) ==
  IF Contains(target.resourceUrl.str, ExternalVideoId)
  THEN [resourceUrl |-> target.resourceUrl, stagedFilename |-> Null]
  ELSE IF KeyParam(target) = Undefined THEN TypeError
  ELSE LET baseUrl == IF EndsWith(target.url.str, <<"/">>)
                      THEN SubSeq(target.url.str, 1, Len(target.url.str) - 1)
                      ELSE target.url.str
       IN [resourceUrl |-> Str(baseUrl \o <<"/">> \o KeyParam(target).value.str),
           stagedFilename |-> Str(LastSegment(KeyParam(target).value.str, "/"))]

\* mimeType.startsWith("image/") ? "IMAGE" : mimeType.startsWith("video/") ? "VIDEO" : "FILE"
ContentType(mimeType) ==
  IF mimeType = "image/jpeg" THEN "IMAGE"
  ELSE IF mimeType = "video/mp4" THEN "VIDEO"
  ELSE "FILE"

\* the fileInput of createFileRecord: filename only when one is given
FileInput(resourceUrl, filename, mimeType) ==
  IF Truthy(filename)
  THEN [originalSource |-> resourceUrl, contentType |-> ContentType(mimeType),
        filename |-> filename]
  ELSE [originalSource |-> resourceUrl, contentType |-> ContentType(mimeType)]

\* processFileUpload step 3: the resource URL, then fileCreate; on success
\* createProductRating pushes the media field
createFileRecord(r) ==
  /\ InRequestMode
  /\ req[r].pc = "register"
  /\ \E outcome \in {"ok", "userErrors", "throw"} :
       LET resource == ResourceOf(req[r].target)
           next == NextStep(req[r].value, req[r].media)
       IN req' = [req EXCEPT ![r] =
            IF resource = TypeError
            THEN [req[r] EXCEPT !.pc = next.pc, !.media = next.media]
            ELSE IF outcome = "ok"
            THEN [req[r] EXCEPT
                    !.calls = Append(@, Call(r, "register", outcome)),
                    !.registered =
                       Append(@, [media |-> req[r].media, target |-> req[r].target,
                                  input |-> FileInput(resource.resourceUrl,
                                                      resource.stagedFilename,
                                                      req[r].value[req[r].media].file.type)]),
                    !.fields = Append(@, Field(req[r].media, FileId(r, req[r].media))),
                    !.pc = next.pc, !.media = next.media]
            ELSE MediaFailed(r, Call(r, "register", outcome))]
  /\ UNCHANGED <<mode, objects, index, Others>>

\* a create that takes the place of the newest object the platform holds
metaobjectCreateUpsert(r) ==
  /\ InRequestMode
  /\ req[r].pc = "create"
  /\ \E outcome \in {"ok", "userErrors", "throw"} :
       IF outcome = "ok"
       THEN LET m == Metaobject(Len(objects), req[r].fields, "ACTIVE")
            IN /\ objects' = [objects EXCEPT ![Len(objects)] = m]
               /\ req' = [req EXCEPT ![r] =
                    [req[r] EXCEPT !.calls = Append(@, Call(r, "create", outcome)),
                                   !.created = m, !.pc = "read"]]
       ELSE /\ objects' = objects
            /\ req' = [req EXCEPT ![r] =
                 [Respond(r, 500, Failure("Failed to create review"))
                    EXCEPT !.calls = Append(@, Call(r, "create", outcome))]]
  /\ UNCHANGED <<mode, index, Others>>

\* createProductRating: the metaobjectCreate mutation; createReview's catch
\* block answers 500 when it fails
metaobjectCreate(r) ==
  /\ InRequestMode
  /\ req[r].pc = "create"
  /\ \E outcome \in {"ok", "userErrors", "throw"} :
       IF outcome = "ok"
       THEN LET m == Metaobject(Len(objects) + 1, req[r].fields, "ACTIVE")
            IN /\ objects' = Append(objects, m)
               /\ req' = [req EXCEPT ![r] =
                    [req[r] EXCEPT !.calls = Append(@, Call(r, "create", outcome)),
                                   !.created = m, !.pc = "read"]]
       ELSE /\ objects' = objects
            /\ req' = [req EXCEPT ![r] =
                 [Respond(r, 500, Failure("Failed to create review"))
                    EXCEPT !.calls = Append(@, Call(r, "create", outcome))]]
  /\ UNCHANGED <<mode, index, Others>>

\* [...existingRatings]: the elements of an array, the characters of a string
Spread(v) ==
  IF IsArr(v) THEN v.arr
  ELSE [i \in 1..Len(v.str) |-> Str(<<v.str[i]>>)]

\* getExistingRatings, given whether the query throws: the parsed metafield
\* value, [] when there is none or anything throws
ExistingRatings(outcome, metafield) ==
  IF outcome \in {"throw", "noProduct"} THEN [arr |-> <<>>]
  ELSE IF metafield # Null /\ Truthy(metafield)
  THEN LET p == JSONparse(metafield)
       IN IF p.ok THEN p.value ELSE [arr |-> <<>>]
  ELSE [arr |-> <<>>]

\* a read of the index whose failure is raised to createReview
getExistingRatingsRethrows(r) ==
  /\ InRequestMode
  /\ req[r].pc = "read"
  /\ \E outcome \in {"ok", "throw", "noProduct"} :
       req' = [req EXCEPT ![r] =
         IF outcome = "ok"
         THEN [req[r] EXCEPT !.calls = Append(@, Call(r, "read", outcome)),
                             !.existing = ExistingRatings(outcome, index[req[r].value.productId.num]),
                             !.pc = "write"]
         ELSE [Respond(r, 500, Failure("Failed to create review"))
                 EXCEPT !.calls = Append(@, Call(r, "read", outcome))]]
  /\ UNCHANGED <<mode, objects, index, Others>>

\* linkRatingToProduct: the read of the index; the query throws, or answers
\* with no product (reading its metafield then throws), or answers
getExistingRatings(r) ==
  /\ InRequestMode
  /\ req[r].pc = "read"
  /\ \E outcome \in {"ok", "throw", "noProduct"} :
       req' = [req EXCEPT ![r] =
         [req[r] EXCEPT !.calls = Append(@, Call(r, "read", outcome)),
                        !.existing = ExistingRatings(outcome, index[req[r].value.productId.num]),
                        !.pc = "write"]]
  /\ UNCHANGED <<mode, objects, index, Others>>

\* the new id alone, the ids read from the index left out
UpdatedRatingsNoSpread(existingRatings, ratingMetaobjectId) == <<ratingMetaobjectId>>

\* the new id put first
UpdatedRatingsPrepend(existingRatings, ratingMetaobjectId) ==
  <<ratingMetaobjectId>> \o Spread(existingRatings)

\* const updatedRatings = [...existingRatings, ratingMetaobjectId]
UpdatedRatings(existingRatings, ratingMetaobjectId) ==
  Append(Spread(existingRatings), ratingMetaobjectId)

\* how productUpdate can end: the platform rejects the write for a product
\* it does not hold
WriteOutcomes(r) ==
  IF \E i \in 1..Len(req[r].calls) : req[r].calls[i].outcome = "noProduct"
  THEN {"userErrors", "throw"}
  ELSE {"ok", "userErrors", "throw"}

\* a link step that takes the object back when the write fails
productUpdateCompensates(r) ==
  /\ InRequestMode
  /\ req[r].pc = "write"
  /\ \E outcome \in WriteOutcomes(r) :
       LET p == req[r].value.productId.num
           fieldMap == FieldsObject(req[r].created.fields)
       IN IF outcome = "ok"
          THEN /\ index' = [index EXCEPT ![p] =
                    JSONstringify(UpdatedRatings(req[r].existing, req[r].created.id))]
               /\ objects' = objects
               /\ req' = [req EXCEPT ![r] =
                    [Respond(r, 201,
                       [success |-> TRUE, message |-> "Review created successfully",
                        data |-> [ratingId |-> req[r].created.id,
                                  productId |-> req[r].value.productId,
                                  status |-> "pending_approval",
                                  imageFileId |-> Or(Get(fieldMap, "image"), Null),
                                  videoFileId |-> Or(Get(fieldMap, "video"), Null)]])
                       EXCEPT !.calls = Append(@, Call(r, "write", outcome))]]
          ELSE /\ index' = index
               /\ objects' = SelectSeq(objects, LAMBDA m : m.id # req[r].created.id)
               /\ req' = [req EXCEPT ![r] =
                    [Respond(r, 500, Failure("Failed to create review"))
                       EXCEPT !.calls = Append(@, Call(r, "write", outcome))]]
  /\ UNCHANGED <<mode, Others>>

\* linkRatingToProduct: the productUpdate mutation that writes the whole index,
\* then createReview's 201 response (500 from its catch block)
productUpdate(r) ==
  /\ InRequestMode
  /\ req[r].pc = "write"
  /\ \E outcome \in WriteOutcomes(r) :
       LET p == req[r].value.productId.num
           fieldMap == FieldsObject(req[r].created.fields)
       IN IF outcome = "ok"
          THEN /\ index' = [index EXCEPT ![p] =
                    JSONstringify(UpdatedRatings(req[r].existing, req[r].created.id))]
               /\ req' = [req EXCEPT ![r] =
                    [Respond(r, 201,
                       [success |-> TRUE, message |-> "Review created successfully",
                        data |-> [ratingId |-> req[r].created.id,
                                  productId |-> req[r].value.productId,
                                  status |-> "pending_approval",
                                  imageFileId |-> Or(Get(fieldMap, "image"), Null),
                                  videoFileId |-> Or(Get(fieldMap, "video"), Null)]])
                       EXCEPT !.calls = Append(@, Call(r, "write", outcome))]]
          ELSE /\ index' = index
               /\ req' = [req EXCEPT ![r] =
                    [Respond(r, 500, Failure("Failed to create review"))
                       EXCEPT !.calls = Append(@, Call(r, "write", outcome))]]
  /\ UNCHANGED <<mode, objects, Others>>

\* submissions without media, handled concurrently
NextCreate ==
  \/ \E r \in DOMAIN req, b \in Bodies : createReview(r, b)
  \/ \E r \in DOMAIN req : metaobjectCreate(r)
  \/ \E r \in DOMAIN req : getExistingRatings(r)
  \/ \E r \in DOMAIN req : productUpdate(r)

Spec == InitCreate /\ [][NextCreate]_vars

\* submissions with media
NextUpload ==
  \/ \E r \in DOMAIN req, b \in Bodies : createReview(r, b)
  \/ \E r \in DOMAIN req : createStagedUpload(r)
  \/ \E r \in DOMAIN req : uploadFileToStagedUrl(r)
  \/ \E r \in DOMAIN req : createFileRecord(r)
  \/ \E r \in DOMAIN req : metaobjectCreate(r)
  \/ \E r \in DOMAIN req : getExistingRatings(r)
  \/ \E r \in DOMAIN req : productUpdate(r)

SpecUpload == InitUpload /\ [][NextUpload]_vars

----------------------------------------------------------------------------
(* The mapper scenario: one validated submission is mapped to a field list, *)
(* stored by the platform and fetched back.                                 *)

\* the platform's object of an id, Null when it holds none
ObjectById(id) ==
  IF \E n \in 1..Len(objects) : objects[n] # Null /\ objects[n].id = id
  THEN objects[CHOOSE n \in 1..Len(objects) : objects[n] # Null /\ objects[n].id = id]
  ELSE Null

\* what the getMetaobject query selects of an object: id, handle, type, fields
Selected(m) ==
  IF m = Null THEN Null
  ELSE [id |-> m.id, handle |-> m.handle, type |-> m.type, fields |-> m.fields]

\* this.client.request(query, { id }) of getMetaobjectById
MetaobjectResponse(id, outcome) ==
  IF outcome = "throw" THEN [kind |-> "throw"]
  ELSE [kind |-> "ok", metaobject |-> Selected(ObjectById(id))]

MapperBodies ==
  { b \in [productId : {Num(1), Num(42), Num(105)},
           rating : {Num(n) : n \in RatingMin..RatingMax},
           title : {SampleTitle}, body : {SampleBody},
           authorName : {SampleName}, authorEmail : {SampleEmail},
           isVerifiedBuyer : {Undefined, Bool(TRUE), Bool(FALSE)},
           ageRange : {Undefined, Str(<<"2", "5", "-", "3", "4">>)},
           sizePurchased : {Undefined, Str(<<"M">>)},
           fitRating : {Num(1), Num(5)},
           shippingRating : {Undefined, Num(1), Num(4)},
           recommendsProduct : {Undefined, Bool(TRUE), Bool(FALSE)},
           image : {Undefined}, video : {Undefined}, isApproved : {Undefined}] :
      ValidationDetails(b) = <<>> }

InitMapper ==
  /\ mode = "mapper"
  /\ objects = <<>>
  /\ index = [p \in Products |-> Null]
  /\ req = <<>>
  /\ \E b \in MapperBodies : submission = ValidatedValue(b)
  /\ created = NotYet /\ fetched = NotYet
  /\ reviews = NotYet /\ stats = NotYet /\ pub = NotYet
  /\ svc = NotYet /\ server = NotYet /\ limiter = NotYet

\* createProductRating for the submission, the platform accepting the object
createProductRating ==
  /\ mode = "mapper"
  /\ created = NotYet
  /\ created' = RatingFields(submission, SampleNow)
  /\ objects' = Append(objects, Metaobject(Len(objects) + 1, created', "ACTIVE"))
  /\ UNCHANGED <<mode, index, req, submission, fetched, reviews, stats, pub,
                 svc, server, limiter>>

\* a caller's getMetaobjectById(id), for an id the platform holds or not
fetchMetaobject(id, outcome) ==
  /\ mode \in {"mapper", "read"}
  /\ fetched' = [id |-> id, outcome |-> outcome, held |-> ObjectById(id) # Null,
                 result |-> getMetaobjectById(MetaobjectResponse(id, outcome))]
  /\ UNCHANGED <<mode, objects, index, req, submission, created, reviews, stats, pub,
                 svc, server, limiter>>

NextMapper ==
  \/ createProductRating
  \/ \E id \in {MetaobjectId(1), MetaobjectId(2)}, outcome \in {"ok", "throw"} :
       fetchMetaobject(id, outcome)

SpecMapper == InitMapper /\ [][NextMapper]_vars

----------------------------------------------------------------------------
(* The publish scenario: publishAllDraftRatings over the objects of the     *)
(* review type, and the publish-all-drafts endpoint's response.             *)

MaxBatch == 3
PageSize == 250

\* lifecycle status of a listed object; "NONE": no publishable status to read
Statuses == {"ACTIVE", "DRAFT", "NONE"}

RECURSIVE SeqsUpTo(_, _)
\* the sequences over S of length at most n
SeqsUpTo(S, n) ==
  IF n = 0 THEN {<<>>}
  ELSE LET shorter == SeqsUpTo(S, n - 1)
       IN shorter \cup {Append(q, x) : q \in {t \in shorter : Len(t) = n - 1}, x \in S}

InitPublish ==
  /\ mode = "publish"
  /\ \E st \in SeqsUpTo(Statuses, MaxBatch) :
       objects = [n \in 1..Len(st) |-> Metaobject(n, LegacyFields, st[n])]
  /\ index = [p \in Products |-> Null]
  /\ req = <<>>
  /\ submission = NotYet /\ created = NotYet /\ fetched = NotYet
  /\ reviews = NotYet /\ stats = NotYet
  /\ pub = [pc |-> "list", listed |-> FALSE, edges |-> <<>>, i |-> 1, seen |-> <<>>, draftRatings |-> <<>>,
            attempts |-> <<>>, results |-> <<>>, response |-> NotYet]
  /\ svc = NotYet /\ server = NotYet /\ limiter = NotYet

\* publishAllDraftReviews' catch block: the error of publishAllDraftRatings
PublishRespondError ==
  [pub EXCEPT !.pc = "done",
              !.response = [status |-> 500, json |-> Failure("Failed to publish draft reviews")]]

\* getAllProductRatings(250): the first page of the objects of the type; a
\* failure is raised to the endpoint
getAllProductRatings ==
  /\ mode = "publish"
  /\ pub.pc = "list"
  /\ \E outcome \in {"ok", "throw"} :
       pub' = IF outcome = "throw" THEN PublishRespondError
              ELSE LET n == IF Len(objects) < PageSize THEN Len(objects) ELSE PageSize
                   IN [pub EXCEPT !.edges = [k \in 1..n |-> objects[k].id],
                                  !.listed = TRUE, !.pc = "check"]
  /\ UNCHANGED <<mode, objects, index, req, submission, created, fetched, reviews, stats,
                 svc, server, limiter>>

\* the test of the classification loop on what getMetaobjectById returned
IsDraft(fullMetaobject) ==
  \/ ~Truthy(fullMetaobject)
  \/ ~Truthy(Get(fullMetaobject, "status"))
  \/ Get(fullMetaobject, "status") # Str(<<"A", "C", "T", "I", "V", "E">>)

\* one round of the classification loop: fetch the object, classify it
checkStatus ==
  /\ mode = "publish"
  /\ pub.pc = "check"
  /\ pub.i <= Len(pub.edges)
  /\ \E outcome \in {"ok", "throw"} :
       LET id == pub.edges[pub.i]
           fullMetaobject == getMetaobjectById(MetaobjectResponse(id, outcome))
       IN pub' = [pub EXCEPT
            !.i = @ + 1,
            !.seen = Append(@, [id |-> id, status |-> ObjectById(id).status]),
            !.draftRatings = IF IsDraft(fullMetaobject) THEN Append(@, id) ELSE @]
  /\ UNCHANGED <<mode, objects, index, req, submission, created, fetched, reviews, stats,
                 svc, server, limiter>>

\* the classification loop is over: the publishing loop starts
startPublishing ==
  /\ mode = "publish"
  /\ pub.pc = "check"
  /\ pub.i > Len(pub.edges)
  /\ pub' = [pub EXCEPT !.pc = "publish", !.i = 1]
  /\ UNCHANGED <<mode, objects, index, req, submission, created, fetched, reviews, stats,
                 svc, server, limiter>>

\* a publish failure that leaves the loop and reaches the outer catch block
PublishRethrown(id, message) ==
  [PublishRespondError EXCEPT !.attempts = Append(@, id)]

\* the catch block of the publishing loop: the failure becomes a ledger entry
PublishCaught(id, message) ==
  [pub EXCEPT !.i = @ + 1, !.attempts = Append(@, id),
              !.results = Append(@, [id |-> id, success |-> FALSE, error |-> message])]

\* one round of the publishing loop: publishMetaobject(ratingId), that is
\* updateProductRating(ratingId, { status: "ACTIVE" })
publishMetaobject ==
  /\ mode = "publish"
  /\ pub.pc = "publish"
  /\ pub.i <= Len(pub.draftRatings)
  /\ \E outcome \in {"ok", "userErrors", "throw"} :
       LET id == pub.draftRatings[pub.i]
           n == CHOOSE k \in 1..Len(objects) : objects[k].id = id
       IN IF outcome = "ok"
          THEN /\ objects' = [objects EXCEPT ![n].status = "ACTIVE"]
               /\ pub' = [pub EXCEPT
                    !.i = @ + 1, !.attempts = Append(@, id),
                    !.results = Append(@, [id |-> id, success |-> TRUE,
                                           result |-> Selected(objects'[n])])]
          ELSE /\ objects' = objects
               /\ pub' = PublishCaught(id, "Failed to update product rating")
  /\ UNCHANGED <<mode, index, req, submission, created, fetched, reviews, stats,
                 svc, server, limiter>>

\* the ledger and the counts publishAllDraftRatings returns, then res.json
publishAllDraftReviews ==
  /\ mode = "publish"
  /\ pub.pc = "publish"
  /\ pub.i > Len(pub.draftRatings)
  /\ LET result ==
           [totalProcessed |-> Len(pub.draftRatings),
            successful |-> Cardinality({k \in 1..Len(pub.results) : pub.results[k].success}),
            failed |-> Cardinality({k \in 1..Len(pub.results) : ~pub.results[k].success}),
            results |-> pub.results]
     IN pub' = [pub EXCEPT !.pc = "done",
                  !.response = [status |-> 200, json |-> [success |-> TRUE, data |-> result]]]
  /\ UNCHANGED <<mode, objects, index, req, submission, created, fetched, reviews, stats,
                 svc, server, limiter>>

NextPublish ==
  \/ getAllProductRatings
  \/ checkStatus
  \/ startPublishing
  \/ publishMetaobject
  \/ publishAllDraftReviews

SpecPublish == InitPublish /\ [][NextPublish]_vars

----------------------------------------------------------------------------
(* The statistics scenario: getReviewStats over what getProductReviews      *)
(* returns. A decimal number with one decimal place is [tenths |-> k].      *)

MaxReviews == 3

Tenths(k) == [tenths |-> k]

\* Math.round(n / d) for d > 0: the nearest integer, a half rounded up
Round(n, d) == (2 * n + d) \div (2 * d)

\* Math.floor(n / d) in the place of Math.round(n / d)
RoundedAverageFloor(sum, totalReviews) ==
  IF totalReviews > 0 THEN Tenths((10 * sum) \div totalReviews) ELSE Tenths(0)

\* Math.round(averageRating * 10) / 10, averageRating being sum / totalReviews
\* when totalReviews > 0 and 0 otherwise
RoundedAverage(sum, totalReviews) ==
  IF totalReviews > 0 THEN Tenths(Round(10 * sum, totalReviews)) ELSE Tenths(0)

\* every review, approved or not
ApprovedReviewsUnfiltered(all) == all

\* reviews.filter((review) => review.isApproved)
ApprovedReviews(all) == SelectSeq(all, LAMBDA review : Truthy(review.isApproved))

RECURSIVE ReduceInRange(_, _)
\* a sum that takes a rating outside 1..5 as 0
ReduceInRange(rs, acc) ==
  IF rs = <<>> THEN acc
  ELSE ReduceInRange(Tail(rs),
                     acc + (IF Head(rs).rating.num \in 1..5 THEN Head(rs).rating.num ELSE 0))

RECURSIVE Reduce(_, _)
\* approvedReviews.reduce((sum, review) => sum + review.rating, acc)
Reduce(rs, acc) == IF rs = <<>> THEN acc ELSE Reduce(Tail(rs), acc + Head(rs).rating.num)

\* rs.filter(...).length for a test on one key: the records whose key is truthy
CountTruthy(rs, key) == Cardinality({i \in 1..Len(rs) : Truthy(rs[i][key])})

\* the records rated `rating` or more
CountRatedAtLeast(rs, rating) == Cardinality({i \in 1..Len(rs) : rs[i].rating.num >= rating})

\* approvedReviews.filter((review) => review.rating === rating).length
CountRated(rs, rating) == Cardinality({i \in 1..Len(rs) : rs[i].rating = Num(rating)})

\* the data of getReviewStats' response
ReviewStats(productId, all) ==
  LET approvedReviews == ApprovedReviews(all)
      totalReviews == Len(approvedReviews)
      recommendations == CountTruthy(approvedReviews, "recommendsProduct")
  IN [productId |-> parseInt(productId),
      totalReviews |-> totalReviews,
      averageRating |-> RoundedAverage(Reduce(approvedReviews, 0), totalReviews),
      ratingDistribution |->
        [rating \in RatingMin..RatingMax |-> CountRated(approvedReviews, rating)],
      verifiedBuyers |-> CountTruthy(approvedReviews, "isVerifiedBuyer"),
      recommendations |-> recommendations,
      recommendationRate |->
        IF totalReviews > 0 THEN Round(100 * recommendations, totalReviews) ELSE 0]

\* isNaN(x) of a route parameter: Number(x) is NaN unless x is a run of digits
isNaN(v) == ~(IsStr(v) /\ v.str # <<>> /\ \A i \in 1..Len(v.str) : IsDigit(v.str[i]))

\* the keys of a review record that getReviewStats reads, as getMetaobjectById
\* types them from the stored fields
StatsRecord(fields) ==
  [k \in {"rating", "isApproved", "isVerifiedBuyer", "recommendsProduct"} |->
     TypedValue(fields, k)]

BoolStrings == {Str(TrueStr), Str(FalseStr)}

\* stored fields: a rating of 1..5, one that is not a number, one that is a
\* number above 5
StoredFields ==
  [rating : {Str(<<DigitChars[n + 1]>>) : n \in RatingMin..RatingMax} \cup {Str(<<"n", "a">>)},
   is_approved : BoolStrings, recommends_product : BoolStrings,
   is_verified_buyer : {Str(FalseStr)}]
  \cup
  [rating : {Str(<<"5">>)}, is_approved : BoolStrings, recommends_product : {Str(TrueStr)},
   is_verified_buyer : {Str(TrueStr)}]
  \cup
  [rating : {Str(<<"7">>)}, is_approved : {Str(TrueStr)}, recommends_product : {Str(FalseStr)},
   is_verified_buyer : {Str(FalseStr)}]

StatsRecords == {StatsRecord(f) : f \in StoredFields}

Approved(n) ==
  StatsRecord([rating |-> Str(<<DigitChars[n + 1]>>), is_approved |-> Str(TrueStr),
               recommends_product |-> Str(TrueStr), is_verified_buyer |-> Str(FalseStr)])

\* five approved records rated 5, 5, 4, 3, 5
ExampleReviews == <<Approved(5), Approved(5), Approved(4), Approved(3), Approved(5)>>

InitStats ==
  /\ mode = "stats"
  /\ objects = <<>>
  /\ index = [p \in Products |-> Null]
  /\ req = <<>>
  /\ submission = NotYet /\ created = NotYet /\ fetched = NotYet
  /\ reviews \in SeqsUpTo(StatsRecords, MaxReviews) \cup {ExampleReviews}
  /\ stats = NotYet /\ pub = NotYet
  /\ svc = NotYet /\ server = NotYet /\ limiter = NotYet

\* getReviewStats for a route parameter, getProductReviews returning `reviews`
\* or throwing
getReviewStats(productId, outcome) ==
  /\ mode = "stats"
  /\ stats = NotYet
  /\ stats' =
       IF ~Truthy(productId) \/ isNaN(productId)
       THEN [status |-> 400, json |-> Failure("Valid product ID is required")]
       ELSE IF outcome = "throw"
       THEN [status |-> 500, json |-> Failure("Failed to fetch review statistics")]
       ELSE [status |-> 200, json |-> [success |-> TRUE, data |-> ReviewStats(productId, reviews)]]
  /\ UNCHANGED <<mode, objects, index, req, submission, created, fetched, reviews, pub,
                 svc, server, limiter>>

NextStats ==
  \E productId \in {Str(<<"1">>), Str(<<"a">>)}, outcome \in {"ok", "throw"} :
    getReviewStats(productId, outcome)

SpecStats == InitStats /\ [][NextStats]_vars

----------------------------------------------------------------------------
(* Properties of createReview.                                              *)

Done(r) == req[r].pc = "done"
Status(r) == req[r].response.status
FailedCalls(r, names) ==
  {i \in 1..Len(req[r].calls) :
     req[r].calls[i].call \in names /\ req[r].calls[i].outcome # "ok"}

\* C1: a body that fails the creation schema, one without authorName or
\* without body in particular, is answered 400 with success false and field
\* messages, and the request makes no outbound call.
C1_InvalidRejectedBeforeAnyCall ==
  \A r \in DOMAIN req :
    (/\ mode = "create"
     /\ req[r].body # NotYet
     /\ \/ req[r].body.authorName = Undefined
        \/ req[r].body.body = Undefined
        \/ ValidationDetails(req[r].body) # <<>>)
    => /\ Done(r)
       /\ Status(r) = 400
       /\ req[r].response.json.success = FALSE
       /\ Len(req[r].response.json.errors) > 0
       /\ req[r].calls = <<>>
       /\ req[r].created = NotYet

C1_Witness ==
  \E r \in DOMAIN req :
    /\ mode = "create" /\ Done(r) /\ Status(r) = 400
    /\ req[r].body.authorName = Undefined
    /\ \E q \in DOMAIN req : Done(q) /\ Status(q) = 400 /\ req[q].body.body = Undefined

\* C2: the object created for a valid submission without media carries
\* is_approved "false" and the decimal digit of the submitted rating, and every
\* object created by a request reads back with isApproved false.
C2_CreatedPendingWithRating ==
  \A r \in DOMAIN req :
    (mode = "create" /\ req[r].created # NotYet)
    => LET m == ObjectById(req[r].created.id)
           f == FieldsObject(m.fields)
           n == req[r].body.rating.num
       IN /\ n \in 1..5
          /\ f["is_approved"] = Str(<<"f", "a", "l", "s", "e">>)
          /\ f["rating"] = Str(<<DigitChars[n + 1]>>)
          /\ getMetaobjectById([kind |-> "ok", metaobject |-> m]).isApproved = Bool(FALSE)
          /\ getMetaobjectById([kind |-> "ok", metaobject |-> m]).rating = Num(n)

C2_Witness ==
  \E r \in DOMAIN req :
    /\ mode = "create" /\ Done(r) /\ Status(r) = 201
    /\ req[r].body.rating = Num(2)
    /\ ObjectById(req[r].created.id) # Null

\* C3: when a phase of a media upload has failed and no create or link call of
\* the request has failed, the finished request answers 201 and the created
\* object has no field for that media.
C3_MediaFailureStill201 ==
  \A r \in DOMAIN req :
    \A media \in {"image", "video"} :
      (/\ mode = "upload" /\ Done(r)
       /\ \E i \in FailedCalls(r, {"stage", "upload", "register"}) :
            req[r].calls[i].media = media
       /\ FailedCalls(r, {"create", "write"}) = {})
      => /\ Status(r) = 201
         /\ media \notin FieldKeys(ObjectById(req[r].created.id).fields)
         /\ req[r].response.json.data[IF media = "image" THEN "imageFileId"
                                      ELSE "videoFileId"] = Null

C3_Witness ==
  \E r \in DOMAIN req :
    /\ mode = "upload" /\ Done(r) /\ Status(r) = 201
    /\ \E i \in 1..Len(req[r].calls) :
         /\ req[r].calls[i].call = "upload" /\ req[r].calls[i].outcome = "non2xx"
         /\ req[r].calls[i].media = "image"
    /\ "image" \notin FieldKeys(ObjectById(req[r].created.id).fields)

\* C6: the link step reads the index once and writes once, and what it writes
\* is the array it read followed by the new id, whatever the index holds by
\* then: no version check, no retry.
C6_BlindReadModifyWrite ==
  [][\A r \in DOMAIN req :
       (mode = "create" /\ req[r].pc = "write" /\ req'[r].pc = "done"
        /\ req'[r].response.status = 201)
       => LET p == req[r].value.productId.num
          IN /\ JSONparse(index'[p]).ok
             /\ JSONparse(index'[p]).value =
                  [arr |-> Append(Spread(req[r].existing), req[r].created.id)]
             /\ Cardinality({i \in 1..Len(req'[r].calls) : req'[r].calls[i].call = "read"}) = 1
             /\ Cardinality({i \in 1..Len(req'[r].calls) : req'[r].calls[i].call = "write"}) = 1]_vars

\* two requests for one product, both answered 201, and the index holds only
\* one of the two new ids
C6_Witness ==
  \E r, q \in DOMAIN req :
    /\ mode = "create" /\ r # q
    /\ Done(r) /\ Status(r) = 201 /\ Done(q) /\ Status(q) = 201
    /\ req[r].value.productId = req[q].value.productId
    /\ LET ids == JSONparse(index[req[r].value.productId.num]).value.arr
       IN /\ \E i \in 1..Len(ids) : ids[i] = req[q].created.id
          /\ \A i \in 1..Len(ids) : ids[i] # req[r].created.id

----------------------------------------------------------------------------
(* Properties of the mapper.                                                *)

ScalarKeys ==
  {"productId", "rating", "title", "body", "authorName", "authorEmail",
   "isVerifiedBuyer", "ageRange", "sizePurchased", "fitRating", "shippingRating",
   "recommendsProduct"}

\* equal values, an absent field being the same as a null one
SameScalar(a, b) == a = b \/ ({a, b} \subseteq {Undefined, Null})

FetchedOwn ==
  /\ mode = "mapper" /\ fetched # NotYet /\ created # NotYet
  /\ fetched.held /\ fetched.outcome = "ok"

\* C7: the record read back from the field list of a submission has every
\* scalar field of the submission, and isApproved false.
C7_RoundTrip ==
  FetchedOwn =>
    /\ \A k \in ScalarKeys : SameScalar(Get(fetched.result, k), submission[k])
    /\ fetched.result.isApproved = Bool(FALSE)

\* C8: getMetaobjectById for an id the platform holds no object of returns null,
\* whether the query answers or fails, and raises nothing.
C8_MissingObjectIsNull ==
  (mode = "mapper" /\ fetched # NotYet /\ ~fetched.held) => fetched.result = Null

C8_Witness ==
  /\ mode = "mapper" /\ fetched # NotYet /\ ~fetched.held
  /\ fetched.id = MetaobjectId(2) /\ created # NotYet /\ fetched.result = Null

----------------------------------------------------------------------------
(* Properties of publish-all-drafts.                                        *)

PublishAnswered == mode = "publish" /\ pub.pc = "done" /\ pub.listed

\* the ids of the listed objects whose status was not ACTIVE, in listing order
RECURSIVE NotActive(_)
NotActive(seen) ==
  IF seen = <<>> THEN <<>>
  ELSE (IF Head(seen).status # "ACTIVE" THEN <<Head(seen).id>> ELSE <<>>)
       \o NotActive(Tail(seen))

\* C4: exactly the listed objects whose status is not ACTIVE are republished,
\* and totalProcessed counts them.
C4_OnlyDraftsRepublished ==
  PublishAnswered =>
    /\ pub.response.status = 200
    /\ pub.attempts = NotActive(pub.seen)
    /\ pub.response.json.data.totalProcessed = Len(NotActive(pub.seen))

\* C5: once the listing has succeeded, every classified draft gets one publish
\* attempt and one ledger entry, in classification order, whatever fails; the
\* counts add up and the answer is 200.
C5_PartialFailureIsData ==
  PublishAnswered =>
    /\ pub.response.status = 200
    /\ pub.attempts = pub.draftRatings
    /\ Len(pub.results) = Len(pub.draftRatings)
    /\ \A k \in 1..Len(pub.results) : pub.results[k].id = pub.draftRatings[k]
    /\ LET data == pub.response.json.data
       IN /\ data.totalProcessed = Len(data.results)
          /\ data.successful + data.failed = data.totalProcessed
          /\ data.results = pub.results

C5_Witness ==
  /\ mode = "publish" /\ pub.pc = "done" /\ pub.response.status = 200
  /\ pub.response.json.data.failed = 1
  /\ pub.response.json.data.successful = 1
  /\ ~pub.response.json.data.results[1].success

----------------------------------------------------------------------------
(* Properties of getReviewStats.                                            *)

StatsAnswered == mode = "stats" /\ stats # NotYet /\ stats.status = 200

ApprovedAt == {i \in 1..Len(reviews) : reviews[i].isApproved = Bool(TRUE)}

RECURSIVE SumRatings(_)
\* the sum of the ratings of the records at the positions of the set
SumRatings(positions) ==
  IF positions = {} THEN 0
  ELSE LET i == CHOOSE i \in positions : TRUE
       IN reviews[i].rating.num + SumRatings(positions \ {i})

\* C9: with no approved review the statistics are all zero, the distribution
\* zero for each of 1..5.
C9_EmptyStats ==
  (StatsAnswered /\ ApprovedAt = {}) =>
    LET data == stats.json.data
    IN /\ data.totalReviews = 0
       /\ data.averageRating = Tenths(0)
       /\ data.recommendationRate = 0
       /\ data.ratingDistribution = <<0, 0, 0, 0, 0>>

C9_Witness ==
  /\ StatsAnswered /\ ApprovedAt = {} /\ Len(reviews) = 2
  /\ stats.json.data.totalReviews = 0

\* C10: with approved reviews, averageRating is the number of tenths nearest
\* to ten times (sum of ratings / count), a half rounded up; the ratings
\* 5, 5, 4, 3, 5 give 4.4 and the distribution 0, 0, 1, 1, 3.
C10_AverageRounded ==
  (StatsAnswered /\ ApprovedAt # {}) =>
    LET data == stats.json.data
        n == Cardinality(ApprovedAt)
        sum == SumRatings(ApprovedAt)
        k == data.averageRating.tenths
    IN /\ 2 * n * k <= 20 * sum + n
       /\ 20 * sum + n < 2 * n * (k + 1)
       /\ (reviews = ExampleReviews =>
             /\ k = 44
             /\ data.ratingDistribution = <<0, 0, 1, 1, 3>>)

C10_Witness ==
  /\ StatsAnswered /\ reviews = ExampleReviews
  /\ stats.json.data.averageRating = Tenths(44)

\* the reviews without the record at position i
RemoveAt(rs, i) == SubSeq(rs, 1, i - 1) \o SubSeq(rs, i + 1, Len(rs))

UnapprovedRecords == {u \in StatsRecords : u.isApproved # Bool(TRUE)}

\* C11: every statistic is computed over the approved records only: the counts
\* are those of the approved records, the distribution has exactly the keys
\* 1..5 with the count of approved records of each rating, and adding,
\* removing or changing an unapproved record changes no value of the output.
C11_OnlyApprovedCounted ==
  StatsAnswered =>
    LET data == stats.json.data
        pid == toString(data.productId)
    IN /\ data.totalReviews = Cardinality(ApprovedAt)
       /\ DOMAIN data.ratingDistribution = 1..5
       /\ \A k \in 1..5 :
            data.ratingDistribution[k] =
              Cardinality({i \in ApprovedAt : reviews[i].rating = Num(k)})
       /\ data.verifiedBuyers =
            Cardinality({i \in ApprovedAt : reviews[i].isVerifiedBuyer = Bool(TRUE)})
       /\ data.recommendations =
            Cardinality({i \in ApprovedAt : reviews[i].recommendsProduct = Bool(TRUE)})
       /\ \A u \in UnapprovedRecords :
            /\ ReviewStats(pid, Append(reviews, u)) = data
            /\ ReviewStats(pid, <<u>> \o reviews) = data
            /\ \A i \in (1..Len(reviews)) \ ApprovedAt :
                 ReviewStats(pid, [reviews EXCEPT ![i] = u]) = data
       /\ \A i \in (1..Len(reviews)) \ ApprovedAt :
            ReviewStats(pid, RemoveAt(reviews, i)) = data

\* approved and unapproved records side by side
C11_Witness ==
  /\ StatsAnswered /\ Len(reviews) = 3
  /\ Cardinality(ApprovedAt) = 2
  /\ reviews[2].isApproved = Bool(FALSE) /\ reviews[2].rating = Num(5)
  /\ stats.json.data.ratingDistribution = <<1, 0, 0, 1, 0>>

----------------------------------------------------------------------------
(* Properties of the chain of outbound calls of one createReview request.   *)

\* position of an outbound call in the chain of a request
CallRank(c) ==
  CASE c.call = "stage" -> IF c.media = "image" THEN 1 ELSE 4
    [] c.call = "upload" -> IF c.media = "image" THEN 2 ELSE 5
    [] c.call = "register" -> IF c.media = "image" THEN 3 ELSE 6
    [] c.call = "create" -> 7
    [] c.call = "read" -> 8
    [] c.call = "write" -> 9

\* C12: the outbound calls of a request follow one another in the order image
\* stage, upload, register, video stage, upload, register, object create, index
\* read, index write, none twice; the index is read or written only after the
\* object create of the request has succeeded.
C12_SequentialChain ==
  \A r \in DOMAIN req :
    mode = "upload" =>
      LET calls == req[r].calls
      IN /\ \A i, j \in 1..Len(calls) : i < j => CallRank(calls[i]) < CallRank(calls[j])
         /\ \A i \in 1..Len(calls) :
              calls[i].call \in {"read", "write"} =>
                /\ \E j \in 1..(i - 1) : calls[j].call = "create" /\ calls[j].outcome = "ok"
                /\ req[r].created # NotYet
         /\ \A i \in 1..Len(calls) :
              calls[i].call \in {"stage", "upload", "register"} => calls[i].media # "none"

\* a request with both media that made all nine calls
C12_Witness ==
  \E r \in DOMAIN req :
    /\ mode = "upload" /\ Done(r) /\ Status(r) = 201
    /\ Len(req[r].calls) = 9
    /\ \A i \in 1..9 : CallRank(req[r].calls[i]) = i

----------------------------------------------------------------------------
(* The mutation scenario: one mutation of the remote client, given what     *)
(* this.client.request does. Each of the six methods tests the user-error   *)
(* list of its own payload and wraps whatever is thrown in its own message. *)

\* most user errors of one response
MaxErrors == 2

Mutations ==
  {"stagedUploadsCreate", "fileCreate", "metaobjectCreate", "productUpdate",
   "metaobjectUpdate", "metaobjectDelete"}

ShopifyApiError == <<"S", "h", "o", "p", "i", "f", "y", " ", "A", "P", "I", " ", "E", "r", "r", "o", "r", ":", " ">>
CommaSpace == <<",", " ">>

\* the text each method's catch block puts before the message it caught
FailedTo(name) ==
  CASE name = "stagedUploadsCreate" -> <<"F", "a", "i", "l", "e", "d", " ", "t", "o", " ", "c", "r", "e", "a", "t", "e", " ", "s", "t", "a", "g", "e", "d", " ", "u", "p", "l", "o", "a", "d", ":", " ">>
    [] name = "fileCreate" -> <<"F", "a", "i", "l", "e", "d", " ", "t", "o", " ", "c", "r", "e", "a", "t", "e", " ", "f", "i", "l", "e", " ", "r", "e", "c", "o", "r", "d", ":", " ">>
    [] name = "metaobjectCreate" -> <<"F", "a", "i", "l", "e", "d", " ", "t", "o", " ", "c", "r", "e", "a", "t", "e", " ", "p", "r", "o", "d", "u", "c", "t", " ", "r", "a", "t", "i", "n", "g", ":", " ">>
    [] name = "productUpdate" -> <<"F", "a", "i", "l", "e", "d", " ", "t", "o", " ", "l", "i", "n", "k", " ", "r", "a", "t", "i", "n", "g", " ", "t", "o", " ", "p", "r", "o", "d", "u", "c", "t", ":", " ">>
    [] name = "metaobjectUpdate" -> <<"F", "a", "i", "l", "e", "d", " ", "t", "o", " ", "u", "p", "d", "a", "t", "e", " ", "p", "r", "o", "d", "u", "c", "t", " ", "r", "a", "t", "i", "n", "g", ":", " ">>
    [] name = "metaobjectDelete" -> <<"F", "a", "i", "l", "e", "d", " ", "t", "o", " ", "d", "e", "l", "e", "t", "e", " ", "p", "r", "o", "d", "u", "c", "t", " ", "r", "a", "t", "i", "n", "g", ":", " ">>

RECURSIVE Join(_, _)
\* items.join(separator)
Join(items, separator) ==
  IF items = <<>> THEN <<>>
  ELSE IF Len(items) = 1 THEN Head(items).str
  ELSE Head(items).str \o separator \o Join(Tail(items), separator)

\* userErrors.map((e) => e.message)
Messages(userErrors) == [i \in 1..Len(userErrors) |-> userErrors[i].message]

\* a mutation that returns its payload without a look at the user errors
RequestMutationUnchecked(name, response) ==
  IF response.kind = "throw"
  THEN Thrown(Str(FailedTo(name) \o response.message.str))
  ELSE [returned |-> response.payload]

\* try { response = await this.client.request(...); if (userErrors.length > 0)
\* throw new Error(`Shopify API Error: ...`); return payload } catch (error)
\* { throw new Error(`Failed to ...: ${error.message}`) }
RequestMutation(name, response) ==
  IF response.kind = "throw"
  THEN Thrown(Str(FailedTo(name) \o response.message.str))
  ELSE IF Len(response.userErrors) > 0
  THEN Thrown(Str(FailedTo(name) \o ShopifyApiError
                    \o Join(Messages(response.userErrors), CommaSpace)))
  ELSE [returned |-> response.payload]

UserErrorMessages == {Str(<<"b", "a", "d", " ", "i", "d">>), Str(<<"t", "a", "k", "e", "n">>), Str(<<"t", "o", "o", " ", "l", "o", "n", "g", ",", " ", "c", "u", "t">>)}

UserErrors == {[field |-> Null, message |-> m] : m \in UserErrorMessages}

\* what this.client.request can do for a mutation: throw, or answer with a
\* user-error list and a payload (null beside user errors)
MutationResponses ==
  {[kind |-> "throw", message |-> Str(<<"f", "e", "t", "c", "h", " ", "f", "a", "i", "l", "e", "d">>)]}
  \cup {[kind |-> "ok", userErrors |-> e,
         payload |-> IF e = <<>> THEN Str(<<"o", "k">>) ELSE Null] :
          e \in SeqsUpTo(UserErrors, MaxErrors)}

InitMutation ==
  /\ mode = "mutation"
  /\ objects = <<>>
  /\ index = [p \in Products |-> Null]
  /\ req = <<>>
  /\ submission = NotYet /\ created = NotYet /\ fetched = NotYet
  /\ reviews = NotYet /\ stats = NotYet /\ pub = NotYet
  /\ \E name \in Mutations, response \in MutationResponses :
       svc = [name |-> name, response |-> response, result |-> NotYet]
  /\ server = NotYet /\ limiter = NotYet

\* the method of the mutation runs to its return or throw
requestMutation ==
  /\ mode = "mutation"
  /\ svc.result = NotYet
  /\ svc' = [svc EXCEPT !.result = RequestMutation(svc.name, svc.response)]
  /\ UNCHANGED <<mode, objects, index, req, submission, created, fetched, reviews, stats,
                 pub, server, limiter>>

NextMutation == requestMutation

SpecMutation == InitMutation /\ [][NextMutation]_vars

IsThrown(v) == DOMAIN v = {"threw"}

\* C13: a mutation whose response carries user errors fails, and the message
\* of the error holds every user-error message, joined by ", "; a mutation
\* returns a result only when the list is empty.
C13_UserErrorsFail ==
  (mode = "mutation" /\ svc.result # NotYet /\ svc.response.kind = "ok") =>
    LET e == svc.response.userErrors
    IN /\ Len(e) > 0 =>
            /\ IsThrown(svc.result)
            /\ Contains(svc.result.threw.str,
                        Join([i \in 1..Len(e) |-> e[i].message], <<",", " ">>))
            /\ \A i \in 1..Len(e) : Contains(svc.result.threw.str, e[i].message.str)
       /\ ~IsThrown(svc.result) => (e = <<>> /\ svc.result.returned = svc.response.payload)
       /\ e = <<>> => ~IsThrown(svc.result)

\* the index write rejected with two user errors
C13_Witness ==
  /\ mode = "mutation" /\ svc.result # NotYet /\ svc.name = "productUpdate"
  /\ svc.response.kind = "ok" /\ Len(svc.response.userErrors) = 2
  /\ svc.response.userErrors[1] # svc.response.userErrors[2]
  /\ IsThrown(svc.result)

----------------------------------------------------------------------------
(* The endpoint scenario: the process serves requests to the endpoints of   *)
(* the review controller one after another. Each handler is a try block     *)
(* around one service call and a catch block that answers 500.              *)

\* requests served in the endpoint scenario
MaxServed == 2
\* const { page = 1, limit = 20 } = req.query
DefaultLimit == 20

NetworkError == Str(<<"f", "e", "t", "c", "h", " ", "f", "a", "i", "l", "e", "d">>)
NotFoundError == [field |-> Null, message |-> Str(<<"n", "o", "t", " ", "f", "o", "u", "n", "d">>)]

\* the text a query method's catch block puts before the message it caught
FailedToFetch(name) ==
  CASE name = "getProductRatings" -> <<"F", "a", "i", "l", "e", "d", " ", "t", "o", " ", "f", "e", "t", "c", "h", " ", "p", "r", "o", "d", "u", "c", "t", " ", "r", "a", "t", "i", "n", "g", "s", ":", " ">>
    [] name = "getProductReviews" -> <<"F", "a", "i", "l", "e", "d", " ", "t", "o", " ", "f", "e", "t", "c", "h", " ", "p", "r", "o", "d", "u", "c", "t", " ", "r", "e", "v", "i", "e", "w", "s", ":", " ">>
    [] name = "getAllProductRatings" -> <<"F", "a", "i", "l", "e", "d", " ", "t", "o", " ", "f", "e", "t", "c", "h", " ", "p", "r", "o", "d", "u", "c", "t", " ", "r", "a", "t", "i", "n", "g", "s", ":", " ">>

\* what the platform selects of an object for a mutation's payload
SelectedWithStatus(m) ==
  [id |-> m.id, handle |-> m.handle, type |-> m.type, fields |-> m.fields,
   capabilities |-> [publishable |-> [status |-> m.status]]]

\* the objects of the platform, deleted ones left out
LiveObjects == SelectSeq(objects, LAMBDA m : m # Null)

\* values of the custom.ratings metafield when the endpoints are served: those
\* of the submission scenario, the empty string, the empty array, arrays of
\* two ids, one of them of no object
ServerIndexValues ==
  InitialIndexValues
  \cup {Str(<<>>), JSONstringify(<<>>),
        JSONstringify(<<MetaobjectId(2), MetaobjectId(1)>>),
        JSONstringify(<<MetaobjectId(9), MetaobjectId(2)>>)}

\* the fields of a review this service created and no moderator has touched
PendingFields ==
  [i \in 1..Len(LegacyFields) |->
     IF LegacyFields[i].key = "is_approved" THEN ModerationField ELSE LegacyFields[i]]

InitServer ==
  /\ mode = "server"
  /\ objects = <<Metaobject(1, LegacyFields, "ACTIVE"), Metaobject(2, PendingFields, "DRAFT")>>
  /\ \E v \in ServerIndexValues : index = [p \in Products |-> v]
  /\ req = <<>>
  /\ submission = NotYet /\ created = NotYet /\ fetched = NotYet
  /\ reviews = NotYet /\ stats = NotYet /\ pub = NotYet /\ svc = NotYet
  /\ server = [alive |-> TRUE, served |-> <<>>]
  /\ limiter = NotYet

\* a request that reached its handler
Request(endpoint, param) ==
  [endpoint |-> endpoint, param |-> param, body |-> Undefined, calls |-> <<>>, raised |-> FALSE,
   responses |-> <<>>]

\* res.status(code).json(payload)
Answered(rq, code, payload) ==
  [rq EXCEPT !.responses = Append(@, [status |-> code, json |-> payload])]

\* a handler without its try/catch: the rejection is not handled
CatchBlockMissing(rq, message, thrown) ==
  [alive |-> FALSE, request |-> [rq EXCEPT !.raised = TRUE]]

\* catch (error) { res.status(500).json({ success: false, message, error: error.message }) }
CatchBlock(rq, message, thrown) ==
  [alive |-> TRUE,
   request |-> Answered([rq EXCEPT !.raised = TRUE], 500,
                        [success |-> FALSE, message |-> message, error |-> thrown.threw])]

Settled(rq) == [alive |-> TRUE, request |-> rq]

\* the handler is over: the request joins the served ones
Serve(outcome) ==
  server' = [alive |-> outcome.alive, served |-> Append(server.served, outcome.request)]

CanServe == mode \in {"server", "lifecycle"} /\ server.alive /\ Len(server.served) < MaxServed

RouteParams == {Str(<<"1">>), Str(<<"9">>), Str(<<"a">>)}

\* ids of a route: an object of the platform, one it does not hold
RatingIds == {MetaobjectId(2), MetaobjectId(9)}

\* ShopifyService.getProductRatings: response.product, null for no such product
GetProductRatings(productId, outcome) ==
  IF outcome = "throw"
  THEN Thrown(Str(FailedToFetch("getProductRatings") \o NetworkError.str))
  ELSE LET p == parseInt(productId)
       IN IF p # NaN /\ p.num \in Products
          THEN [returned |-> [ratings |-> index[p.num]]]
          ELSE [returned |-> Null]

\* JSON.parse of the metafield value, made an array: [] when it throws
MetaobjectIds(value) ==
  LET p == JSONparse(value)
  IN IF ~p.ok THEN <<>>
     ELSE IF IsArr(p.value) THEN p.value.arr
     ELSE <<p.value>>

\* most ids of an index in the endpoint scenario
MaxIds == 2

\* the ids getProductReviews reads from the product: none for no product, no
\* metafield or an empty value
ProductMetaobjectIds(product) ==
  IF product = Null \/ ~Truthy(product.ratings) THEN <<>>
  ELSE MetaobjectIds(product.ratings)

\* a fetch loop that puts each record before the ones it has
FetchReviewsUnshift(ids, fetchOutcome) ==
  SelectSeq([i \in 1..Len(ids) |->
               getMetaobjectById(MetaobjectResponse(ids[Len(ids) + 1 - i],
                                                    fetchOutcome[Len(ids) + 1 - i]))],
            LAMBDA review : review # Null)

\* the fetch loop of getProductReviews: the records of the ids whose fetch
\* gives one, fetchOutcome[i] telling whether the i-th query throws
FetchReviews(ids, fetchOutcome) ==
  SelectSeq([i \in 1..Len(ids) |->
               getMetaobjectById(MetaobjectResponse(ids[i], fetchOutcome[i]))],
            LAMBDA review : review # Null)

\* GET /product/:productId (getProductReviews) and GET /stats/:productId
\* (getReviewStats): the parameter check, shopifyService.getProductReviews
\* (the product query, the ids of its index, the fetch loop), the response
getProductReviews(endpoint, productId) ==
  /\ CanServe
  /\ \E outcome \in {"ok", "throw"}, fetchOutcome \in [1..MaxIds -> {"ok", "throw"}] :
     \E product \in {GetProductRatings(productId, outcome)} :
     \E ids \in {IF DOMAIN product = {"threw"} THEN <<>>
                 ELSE ProductMetaobjectIds(product.returned)} :
     \E found \in {FetchReviews(ids, fetchOutcome)} :
       LET rq == Request(endpoint, productId)
           called == [rq EXCEPT !.calls =
                        <<[call |-> "getProduct", outcome |-> outcome]>>
                        \o [i \in 1..Len(ids) |->
                              [call |-> "getMetaobject", outcome |-> fetchOutcome[i]]]]
       IN Serve(
            IF ~Truthy(productId) \/ isNaN(productId)
            THEN Settled(Answered(rq, 400, Failure("Valid product ID is required")))
            ELSE IF DOMAIN product = {"threw"}
            THEN CatchBlock(called,
                            IF endpoint = "getReviewStats"
                            THEN "Failed to fetch review statistics"
                            ELSE "Failed to fetch product reviews",
                            Thrown(Str(FailedToFetch("getProductReviews") \o product.threw.str)))
            ELSE Settled(Answered(called, 200,
                   [success |-> TRUE,
                    data |-> IF endpoint = "getReviewStats"
                             THEN ReviewStats(productId, found)
                             ELSE found])))
  /\ UNCHANGED <<mode, objects, index, req, submission, created, fetched, reviews, stats,
                 pub, svc, limiter>>

\* { id: edge.node.id, handle: edge.node.handle, ...fields }
FlatNode(node) ==
  LET fields == FieldsObject(node.fields)
  IN [k \in {"id", "handle"} \cup DOMAIN fields |->
        IF k \in DOMAIN fields THEN fields[k] ELSE node[k]]

\* GET /: getAllProductRatings(parseInt(limit)) and the flattened nodes
getAllReviews ==
  /\ CanServe
  /\ \E outcome \in {"ok", "throw"} :
       LET rq == [Request("getAllReviews", Null) EXCEPT
                    !.calls = <<[call |-> "metaobjects", outcome |-> outcome]>>]
           first == IF Len(LiveObjects) < DefaultLimit THEN Len(LiveObjects) ELSE DefaultLimit
       IN Serve(
            IF outcome = "throw"
            THEN CatchBlock(rq, "Failed to fetch reviews",
                   Thrown(Str(FailedToFetch("getAllProductRatings") \o NetworkError.str)))
            ELSE Settled(Answered(rq, 200,
                   [success |-> TRUE,
                    data |-> [reviews |->
                                [k \in 1..first |->
                                   FlatNode(LiveObjects[k])],
                              pagination |-> [hasNextPage |-> Len(LiveObjects) > first]]])))
  /\ UNCHANGED <<mode, objects, index, req, submission, created, fetched, reviews, stats,
                 pub, svc, limiter>>

\* the keys of updateReviewSchema, in the order Object.keys gives them
UpdateKeys == <<"isApproved", "rating", "title", "body">>

\* the rule of updateReviewSchema that key k of the body breaks, "ok" if none
UpdateKeyRule(b, k) ==
  CASE k = "isApproved" -> BooleanRule(b.isApproved)
    [] k = "rating" -> IntegerRule(b.rating, RatingMin, RatingMax, FALSE)
    [] k = "title" -> StringRule(b.title, 1, TitleMax, FALSE)
    [] k = "body" -> StringRule(b.body, 1, BodyMax, FALSE)

\* error.details of updateReviewSchema.validate(b)
UpdateValidationDetails(b) ==
  LET bad == {i \in 1..Len(UpdateKeys) : UpdateKeyRule(b, UpdateKeys[i]) # "ok"}
  IN IF bad = {} THEN <<>>
     ELSE LET i == CHOOSE i \in bad : \A j \in bad : i <= j
          IN <<[field |-> UpdateKeys[i], rule |-> UpdateKeyRule(b, UpdateKeys[i])]>>

NoUpdates == [isApproved |-> Undefined, rating |-> Undefined, title |-> Undefined,
              body |-> Undefined, status |-> Undefined]

\* the bodies moderators send to PUT /:ratingId
UpdateBodies ==
  { NoUpdates,
    [NoUpdates EXCEPT !.isApproved = Bool(TRUE)],
    [NoUpdates EXCEPT !.rating = Num(3), !.title = SampleTitle],
    [NoUpdates EXCEPT !.rating = Num(6)] }

\* updateProductRating's field list: a field per key of the updates that is
\* neither undefined nor null, the status key taken out first
UpdateFields(updates) ==
  LET present == SelectSeq(UpdateKeys, LAMBDA k : updates[k] # Undefined /\ updates[k] # Null)
  IN [i \in 1..Len(present) |-> Field(present[i], toString(updates[present[i]]))]

\* the platform's metaobjectUpdate on the fields of an object: a named field
\* takes the new value, a new key is added
MergeFields(fields, changes) ==
  [i \in 1..Len(fields) |->
     IF \E j \in 1..Len(changes) : changes[j].key = fields[i].key
     THEN changes[CHOOSE j \in 1..Len(changes) : changes[j].key = fields[i].key]
     ELSE fields[i]]
  \o SelectSeq(changes, LAMBDA c : c.key \notin FieldKeys(fields))

\* capabilities.publishable.status of the input: updates.status.toUpperCase()
StatusInput(status) ==
  CASE status \in {Str(<<"A", "C", "T", "I", "V", "E">>), Str(<<"a", "c", "t", "i", "v", "e">>)}
         -> "ACTIVE"
    [] status \in {Str(<<"D", "R", "A", "F", "T">>), Str(<<"d", "r", "a", "f", "t">>)}
         -> "DRAFT"

\* the object of ratingId after metaobjectUpdate with the input of
\* updateProductRating
UpdatedObject(ratingId, updates) ==
  LET m == ObjectById(ratingId)
  IN [m EXCEPT !.fields = MergeFields(@, UpdateFields(updates)),
               !.status = IF updates.status # Undefined THEN StatusInput(updates.status) ELSE @]

\* how a mutation on the object of ratingId can end: the platform accepts it
\* only when it holds the object
MutationOutcomes(ratingId) ==
  IF ObjectById(ratingId) = Null THEN {"userErrors", "throw"}
  ELSE {"ok", "userErrors", "throw"}

\* this.client.request of a mutation on the object of ratingId: it throws, or
\* the platform rejects it (always so when it holds no such object), or it
\* answers with the payload
ObjectMutationResponse(ratingId, outcome, payload) ==
  IF outcome = "throw" THEN [kind |-> "throw", message |-> NetworkError]
  ELSE IF outcome = "userErrors" \/ ObjectById(ratingId) = Null
  THEN [kind |-> "ok", userErrors |-> <<NotFoundError>>, payload |-> Null]
  ELSE [kind |-> "ok", userErrors |-> <<>>, payload |-> payload]

\* the platform's objects after a mutation that replaces (or, with Null,
\* deletes) the object of ratingId
ObjectsAfter(ratingId, result, m) ==
  IF DOMAIN result = {"threw"} THEN objects
  ELSE [n \in 1..Len(objects) |->
          IF objects[n] # Null /\ objects[n].id = ratingId THEN m ELSE objects[n]]

\* ShopifyService.updateProductRating
UpdateProductRating(ratingId, updates, outcome) ==
  RequestMutation("metaobjectUpdate",
    ObjectMutationResponse(ratingId, outcome,
      IF ObjectById(ratingId) = Null THEN Null
      ELSE SelectedWithStatus(UpdatedObject(ratingId, updates))))

\* PUT /:ratingId
updateReview(ratingId, b) ==
  /\ CanServe
  /\ \E outcome \in MutationOutcomes(ratingId) :
       LET rq == [Request("updateReview", ratingId) EXCEPT !.body = b]
           details == UpdateValidationDetails(b)
           called == [rq EXCEPT !.calls = <<[call |-> "metaobjectUpdate", outcome |-> outcome]>>]
           result == UpdateProductRating(ratingId, b, outcome)
       IN IF details # <<>>
          THEN /\ Serve(Settled(Answered(rq, 400,
                    [success |-> FALSE, message |-> "Validation error", errors |-> details])))
               /\ objects' = objects
          ELSE /\ Serve(IF DOMAIN result = {"threw"}
                        THEN CatchBlock(called, "Failed to update review", result)
                        ELSE Settled(Answered(called, 200,
                               [success |-> TRUE, message |-> "Review updated successfully",
                                data |-> result.returned])))
               /\ objects' = ObjectsAfter(ratingId, result,
                               IF ObjectById(ratingId) = Null THEN Null
                               ELSE UpdatedObject(ratingId, b))
  /\ UNCHANGED <<mode, index, req, submission, created, fetched, reviews, stats,
                 pub, svc, limiter>>

\* ShopifyService.deleteProductRating
DeleteProductRating(ratingId, outcome) ==
  RequestMutation("metaobjectDelete", ObjectMutationResponse(ratingId, outcome, ratingId))

\* a delete that also empties the index the id was linked into
deleteReviewUnlinks(ratingId) ==
  /\ CanServe
  /\ \E outcome \in MutationOutcomes(ratingId) :
       LET rq == [Request("deleteReview", ratingId) EXCEPT
                    !.calls = <<[call |-> "metaobjectDelete", outcome |-> outcome]>>]
           result == DeleteProductRating(ratingId, outcome)
       IN /\ Serve(IF DOMAIN result = {"threw"}
                   THEN CatchBlock(rq, "Failed to delete review", result)
                   ELSE Settled(Answered(rq, 200,
                          [success |-> TRUE, message |-> "Review deleted successfully",
                           data |-> [deletedId |-> result.returned]])))
          /\ objects' = ObjectsAfter(ratingId, result, Null)
          /\ index' = [p \in Products |->
                         IF DOMAIN result # {"threw"} /\ index[p] # Null
                            /\ Contains(index[p].str, ratingId.str)
                         THEN JSONstringify(<<>>) ELSE index[p]]
  /\ UNCHANGED <<mode, req, submission, created, fetched, reviews, stats,
                 pub, svc, limiter>>

\* DELETE /:ratingId
deleteReview(ratingId) ==
  /\ CanServe
  /\ \E outcome \in MutationOutcomes(ratingId) :
       LET rq == [Request("deleteReview", ratingId) EXCEPT
                    !.calls = <<[call |-> "metaobjectDelete", outcome |-> outcome]>>]
           result == DeleteProductRating(ratingId, outcome)
       IN /\ Serve(IF DOMAIN result = {"threw"}
                   THEN CatchBlock(rq, "Failed to delete review", result)
                   ELSE Settled(Answered(rq, 200,
                          [success |-> TRUE, message |-> "Review deleted successfully",
                           data |-> [deletedId |-> result.returned]])))
          /\ objects' = ObjectsAfter(ratingId, result, Null)
  /\ UNCHANGED <<mode, index, req, submission, created, fetched, reviews, stats,
                 pub, svc, limiter>>

\* PUT /:ratingId/publish: publishMetaobject, that is
\* updateProductRating(ratingId, { status: "ACTIVE" })
publishReview(ratingId) ==
  /\ CanServe
  /\ \E outcome \in MutationOutcomes(ratingId) :
       LET rq == [Request("publishReview", ratingId) EXCEPT
                    !.calls = <<[call |-> "metaobjectUpdate", outcome |-> outcome]>>]
           updates == [NoUpdates EXCEPT !.status = Str(<<"A", "C", "T", "I", "V", "E">>)]
           result == UpdateProductRating(ratingId, updates, outcome)
       IN /\ Serve(IF DOMAIN result = {"threw"}
                   THEN CatchBlock(rq, "Failed to publish review", result)
                   ELSE Settled(Answered(rq, 200,
                          [success |-> TRUE, message |-> "Review published successfully",
                           data |-> result.returned])))
          /\ objects' = ObjectsAfter(ratingId, result,
                          IF ObjectById(ratingId) = Null THEN Null
                          ELSE UpdatedObject(ratingId, updates))
  /\ UNCHANGED <<mode, index, req, submission, created, fetched, reviews, stats,
                 pub, svc, limiter>>

NextServer ==
  \/ \E endpoint \in {"getProductReviews", "getReviewStats"}, productId \in RouteParams :
       getProductReviews(endpoint, productId)
  \/ getAllReviews
  \/ \E ratingId \in RatingIds, b \in UpdateBodies : updateReview(ratingId, b)
  \/ \E ratingId \in RatingIds : deleteReview(ratingId)
  \/ \E ratingId \in RatingIds : publishReview(ratingId)

InitEndpoints == InitServer \/ InitCreate \/ InitPublish

\* every endpoint of the controller: createReview and publish-all-drafts by
\* their own steps, the others one request after another
NextEndpoints == NextServer \/ NextCreate \/ NextPublish

SpecEndpoints == InitEndpoints /\ [][NextEndpoints]_vars

----------------------------------------------------------------------------
(* Properties of the endpoints' error handling.                             *)

\* the outbound calls whose failure the service raises to the handler
RaisedCalls == {"getProduct", "metaobjects", "metaobjectUpdate", "metaobjectDelete"}

FailedAt(rq) == {i \in 1..Len(rq.calls) : rq.calls[i].call \in RaisedCalls /\ rq.calls[i].outcome # "ok"}

----------------------------------------------------------------------------
(* The limiter scenario: the two rate limiters of the review router, each a *)
(* counter of hits per client address (req.ip) that the limiter's timer     *)
(* clears when its window ends. generalLimiter is mounted on the router     *)
(* with router.use, ahead of every route; createReviewLimiter stands        *)
(* before createReview on POST /. Both limiters are created when the        *)
(* router module loads, so a window of the creation limiter is four         *)
(* windows of the general one.                                              *)

\* createReviewLimiter: max
CreateMax == 20
\* config.rateLimit.max
GeneralMax == 100
\* windowMs of createReviewLimiter over windowMs of config.rateLimit
WindowRatio == (60 * 60 * 1000) \div (15 * 60 * 1000)

\* requests an address goes on sending after a limiter has begun to reject it
MaxBlocked == 2
\* requests of the second address
MaxOtherHits == 2

Addresses == {"a", "b"}

\* message of createReviewLimiter
CreateLimitMessage ==
  [success |-> FALSE, message |-> "Too many review submissions, please try again later."]

\* generalLimiter sets no message: the limiter's own text is sent, not JSON
GeneralLimitMessage == [text |-> "Too many requests, please try again later."]

InitLimiter ==
  /\ mode = "limiter"
  /\ objects = <<>>
  /\ index = [p \in Products |-> Null]
  /\ req = <<>>
  /\ submission = NotYet /\ created = NotYet /\ fetched = NotYet
  /\ reviews = NotYet /\ stats = NotYet /\ pub = NotYet /\ svc = NotYet
  /\ server = NotYet
  /\ limiter = [clock |-> 0,
                general |-> [a \in Addresses |-> 0],
                create |-> [a \in Addresses |-> 0],
                reached |-> [a \in Addresses |-> 0],
                last |-> NotYet]

\* the requests the scenario lets an address send
MaySend(a) ==
  /\ mode = "limiter"
  /\ limiter.general[a] < (IF a = "a" THEN GeneralMax + MaxBlocked ELSE MaxOtherHits)
  /\ limiter.create[a] < CreateMax + MaxBlocked

\* a limiter's middleware for one request: the hit is counted, and past max
\* the limiter answers 429 itself
Limited(hits, max) == hits + 1 > max

\* any route but POST /: generalLimiter, then the route's handler
otherRequest(a) ==
  /\ MaySend(a)
  /\ limiter' =
       [limiter EXCEPT
          !.general[a] = @ + 1,
          !.last = IF Limited(limiter.general[a], GeneralMax)
                   THEN [address |-> a, route |-> "other", before |-> limiter.reached[a],
                         status |-> 429, body |-> GeneralLimitMessage, handled |-> FALSE]
                   ELSE [address |-> a, route |-> "other", before |-> limiter.reached[a],
                         status |-> 200, body |-> NotYet, handled |-> TRUE]]
  /\ UNCHANGED <<mode, objects, index, req, submission, created, fetched, reviews, stats,
                 pub, svc, server>>

\* POST /: generalLimiter, createReviewLimiter, then createReview
postReview(a) ==
  /\ MaySend(a)
  /\ limiter' =
       IF Limited(limiter.general[a], GeneralMax)
       THEN [limiter EXCEPT
               !.general[a] = @ + 1,
               !.last = [address |-> a, route |-> "post", before |-> limiter.reached[a],
                         status |-> 429, body |-> GeneralLimitMessage, handled |-> FALSE]]
       ELSE IF Limited(limiter.create[a], CreateMax)
       THEN [limiter EXCEPT
               !.general[a] = @ + 1, !.create[a] = @ + 1,
               !.last = [address |-> a, route |-> "post", before |-> limiter.reached[a],
                         status |-> 429, body |-> CreateLimitMessage, handled |-> FALSE]]
       ELSE [limiter EXCEPT
               !.general[a] = @ + 1, !.create[a] = @ + 1, !.reached[a] = @ + 1,
               !.last = [address |-> a, route |-> "post", before |-> limiter.reached[a],
                         status |-> 201, body |-> NotYet, handled |-> TRUE]]
  /\ UNCHANGED <<mode, objects, index, req, submission, created, fetched, reviews, stats,
                 pub, svc, server>>

\* a window of the general limiter ends: its counters are cleared, and with
\* every fourth one the creation limiter's
windowEnds ==
  /\ mode = "limiter"
  /\ limiter.last # NotYet
  /\ LET clock == (limiter.clock + 1) % WindowRatio
     IN limiter' =
          [limiter EXCEPT
             !.clock = clock,
             !.general = [a \in Addresses |-> 0],
             !.create = IF clock = 0 THEN [a \in Addresses |-> 0] ELSE @,
             !.reached = IF clock = 0 THEN [a \in Addresses |-> 0] ELSE @]
  /\ UNCHANGED <<mode, objects, index, req, submission, created, fetched, reviews, stats,
                 pub, svc, server>>

NextLimiter ==
  \/ \E a \in Addresses : otherRequest(a)
  \/ \E a \in Addresses : postReview(a)
  \/ windowEnds

SpecLimiter == InitLimiter /\ [][NextLimiter]_vars

\* C15: in a window of the creation limiter at most 20 creation requests of
\* an address reach createReview, and a creation request that comes after
\* those 20 is answered 429 with the creation limiter's JSON message and is
\* not handled.
C15_CreationLimited ==
  mode = "limiter" =>
    /\ \A a \in Addresses : limiter.reached[a] <= 20
    /\ (limiter.last # NotYet /\ limiter.last.route = "post" /\ limiter.last.before >= 20) =>
         /\ limiter.last.status = 429
         /\ ~limiter.last.handled
         /\ limiter.last.body =
              [success |-> FALSE,
               message |-> "Too many review submissions, please try again later."]

----------------------------------------------------------------------------
(* Properties of the media boundary.                                        *)

\* config.upload.maxFileSize
MaxFileSize == 5 * 1024 * 1024

\* config.upload.allowedTypes
AllowedTypes == {<<"i", "m", "a", "g", "e", "/", "j", "p", "e", "g">>, <<"i", "m", "a", "g", "e", "/", "p", "n", "g">>, <<"i", "m", "a", "g", "e", "/", "g", "i", "f">>, <<"v", "i", "d", "e", "o", "/", "m", "p", "4">>, <<"v", "i", "d", "e", "o", "/", "w", "e", "b", "m">>}

\* the bytes a payload decodes to
DecodedSize(payload) == (3 * (Length(payload) - DataUrlPrefixLength(payload.str))) \div 4

\* the media type a payload's data URL prefix names, <<>> when it has none
DeclaredType(payload) ==
  LET s == payload.str
      n == DataUrlPrefixLength(s)
  IN IF n = 0 THEN <<>> ELSE SubSeq(s, Len(DataPrefix) + 1, n - Len(Base64Mark) - 1)

\* a payload over the size limit or of a type outside the allow-list
Inadmissible(payload) ==
  /\ IsStr(payload)
  /\ \/ DecodedSize(payload) > MaxFileSize
     \/ (DeclaredType(payload) # <<>> /\ DeclaredType(payload) \notin AllowedTypes)

\* C16: a submission whose image or video is over 5 MB or of a type outside
\* the allow-list is rejected before any outbound call: no phase of the
\* upload pipeline runs for that payload.
C16_MediaRejectedAtBoundary ==
  \A r \in DOMAIN req :
    \A media \in {"image", "video"} :
      (mode = "upload" /\ req[r].body # NotYet /\ Inadmissible(req[r].body[media])) =>
        /\ Done(r)
        /\ Status(r) \in {400, 413}
        /\ \A i \in 1..Len(req[r].calls) : req[r].calls[i].media # media

----------------------------------------------------------------------------
(* Properties of the link step.                                             *)

\* the index of the product of request r parses to an array
IndexIsArray(r) ==
  LET v == index[req[r].value.productId.num]
  IN v # Null /\ Truthy(v) /\ JSONparse(v).ok /\ IsArr(JSONparse(v).value)

\* the ids of the index of a product
IndexIds(p) == JSONparse(index[p]).value.arr

\* C17: a link step whose read succeeds and that no other writer crosses
\* writes the array it read followed by the new id; when the index is absent
\* or does not parse, the read gives the empty array, the step goes on to the
\* write, and the index written is the new id alone.
C17_AppendOrStartOver ==
  [][\A r \in DOMAIN req :
       LET p == req[r].value.productId.num
       IN /\ (mode = "create" /\ req[r].pc = "read" /\ req'[r].pc # "read"
              /\ req'[r].calls[Len(req'[r].calls)].outcome = "ok") =>
                /\ req'[r].pc = "write"
                /\ IndexIsArray(r) => req'[r].existing = [arr |-> IndexIds(p)]
                /\ ~IndexIsArray(r) => req'[r].existing = [arr |-> <<>>]
          /\ (mode = "create" /\ req[r].pc = "write" /\ req'[r].pc = "done"
              /\ req'[r].response.status = 201
              /\ req[r].calls[Len(req[r].calls)].outcome = "ok"
              /\ req[r].existing = ExistingRatings("ok", index[p])) =>
                /\ JSONparse(index'[p]).ok
                /\ IndexIsArray(r) =>
                     /\ Len(IndexIds(p)) + 1 = Len(JSONparse(index'[p]).value.arr)
                     /\ \A i \in 1..Len(IndexIds(p)) :
                          JSONparse(index'[p]).value.arr[i] = IndexIds(p)[i]
                     /\ JSONparse(index'[p]).value.arr[Len(IndexIds(p)) + 1] = req[r].created.id
                /\ ~IndexIsArray(r) =>
                     JSONparse(index'[p]).value = [arr |-> <<req[r].created.id>>]]_vars

\* one request alone has linked its object behind the id the index held
C17_Witness ==
  \E r \in DOMAIN req :
    /\ mode = "create" /\ Done(r) /\ Status(r) = 201
    /\ \A q \in DOMAIN req : q # r => req[q].pc = "idle"
    /\ JSONparse(index[req[r].value.productId.num]).value =
         [arr |-> <<MetaobjectId(1), req[r].created.id>>]

-----------------------------------------------------------------------------
(* The three phases of processFileUpload.                                    *)

Phases == <<"stage", "upload", "register">>

\* the positions in the call log of r of a phase of a media field
PhaseCalls(r, media, phase) ==
  {i \in 1..Len(req[r].calls) : req[r].calls[i].media = media /\ req[r].calls[i].call = phase}

\* C18: for either media field of a request, each of the phases stage, upload,
\* register is run at most once, a phase only after the phase before it has
\* succeeded, nothing after a phase that failed, and the field gets a file ID
\* only when all three phases succeeded.
C18_PhasesOnceInOrder ==
  \A r \in DOMAIN req : \A media \in {"image", "video"} :
    mode = "upload" =>
      LET calls == req[r].calls
      IN /\ \A p \in 1..3 : Cardinality(PhaseCalls(r, media, Phases[p])) <= 1
         /\ \A p \in 2..3 : \A i \in PhaseCalls(r, media, Phases[p]) :
              \E j \in PhaseCalls(r, media, Phases[p - 1]) :
                j < i /\ calls[j].outcome = "ok"
         /\ \A p \in 1..3 : \A i \in PhaseCalls(r, media, Phases[p]) :
              calls[i].outcome # "ok" =>
                /\ \A q \in 1..3 : \A j \in PhaseCalls(r, media, Phases[q]) : j <= i
                /\ \A f \in 1..Len(req[r].fields) : req[r].fields[f].key # media
         /\ \A f \in 1..Len(req[r].fields) :
              req[r].fields[f].key = media =>
                \A p \in 1..3 : \E i \in PhaseCalls(r, media, Phases[p]) : calls[i].outcome = "ok"

\* a finished request whose image transfer failed after a successful stage and
\* whose video went through all three phases
C18_Witness ==
  /\ mode = "upload"
  /\ \E r \in DOMAIN req :
       /\ req[r].pc = "done"
       /\ \E i \in PhaseCalls(r, "image", "stage") : req[r].calls[i].outcome = "ok"
       /\ \E i \in PhaseCalls(r, "image", "upload") : req[r].calls[i].outcome = "non2xx"
       /\ PhaseCalls(r, "image", "register") = {}
       /\ \A f \in 1..Len(req[r].fields) : req[r].fields[f].key # "image"
       /\ \E i \in PhaseCalls(r, "video", "register") : req[r].calls[i].outcome = "ok"
       /\ \E f \in 1..Len(req[r].fields) : req[r].fields[f].key = "video"

-----------------------------------------------------------------------------
(* The file record of the register phase.                                    *)

\* the file records a request has created, each with the staged target it
\* was created from
Registered ==
  UNION {{req[r].registered[i] : i \in 1..Len(req[r].registered)} : r \in DOMAIN req}

\* base is url without one closing slash
TrimmedOnce(url, base) == IF EndsWith(url, <<"/">>) THEN url = base \o <<"/">> ELSE url = base

\* name is what follows the last slash of key
LastPathSegment(key, name) ==
  /\ ~Contains(name, <<"/">>)
  /\ \E n \in 0..Len(key) :
       /\ key = SubSeq(key, 1, n) \o name
       /\ n > 0 => key[n] = "/"

\* C19: a file record made from a staged target whose resource URL contains
\* external_video_id has that resource URL as its source and no filename; any
\* other file record has as its source the staged URL without one closing slash,
\* a slash and the value of the key parameter, and as its filename the last
\* path segment of that value.
C19_RegisteredSource ==
  \A e \in Registered :
    IF Contains(e.target.resourceUrl.str, ExternalVideoId)
    THEN /\ e.input.originalSource = e.target.resourceUrl
         /\ "filename" \notin DOMAIN e.input
    ELSE \E p \in 1..Len(e.target.parameters) :
           /\ e.target.parameters[p].name = Str(<<"k", "e", "y">>)
           /\ \E n \in 0..Len(e.target.url.str) :
                /\ TrimmedOnce(e.target.url.str, SubSeq(e.target.url.str, 1, n))
                /\ e.input.originalSource.str =
                     SubSeq(e.target.url.str, 1, n) \o <<"/">> \o e.target.parameters[p].value.str
           /\ "filename" \in DOMAIN e.input
           /\ LastPathSegment(e.target.parameters[p].value.str, e.input.filename.str)

\* a request that registered its image from a bucket target whose URL closes
\* with a slash and whose key has a path, and its video from a video host
C19_Witness ==
  /\ mode = "upload"
  /\ \E r \in DOMAIN req :
       /\ Len(req[r].registered) = 2
       /\ ~Contains(req[r].registered[1].target.resourceUrl.str, ExternalVideoId)
       /\ EndsWith(req[r].registered[1].target.url.str, <<"/">>)
       /\ Contains(KeyParam(req[r].registered[1].target).value.str, <<"/">>)
       /\ "filename" \in DOMAIN req[r].registered[1].input
       /\ Contains(req[r].registered[2].target.resourceUrl.str, ExternalVideoId)
       /\ req[r].registered[2].input.contentType = "VIDEO"

-----------------------------------------------------------------------------
(* The submission-to-fields mapping.                                         *)

\* the optional keys of a submission and the field each is mapped to
OptionalFieldOf ==
  [ageRange |-> "age_range", sizePurchased |-> "size_purchased",
   shippingRating |-> "shipping_rating", recommendsProduct |-> "recommends_product"]

\* C20: every value of the fields made from a submission is a string, and
\* each of ageRange, sizePurchased, shippingRating and recommendsProduct that
\* the submission does not have is mapped to the empty string.
C20_AbsentOptionalEmpty ==
  (mode = "mapper" /\ created # NotYet) =>
    /\ \A i \in 1..Len(created) : IsStr(created[i].value)
    /\ \A k \in DOMAIN OptionalFieldOf :
         submission[k] = Undefined => FieldsObject(created)[OptionalFieldOf[k]] = Str(<<>>)

-----------------------------------------------------------------------------
(* The read scenario: getMetaobjectById on an object that holds only some    *)
(* of the fields, or holds them empty.                                       *)

\* the field keys the scenario varies, in the order the platform returns them
PartialKeys == <<"rating", "fit_rating", "shipping_rating", "is_approved", "title", "age_range">>

StoredSample ==
  [rating |-> Str(<<"4">>), fit_rating |-> Str(<<"3">>), shipping_rating |-> Str(<<"2">>),
   is_approved |-> Str(TrueStr), title |-> SampleTitle,
   age_range |-> Str(<<"2", "5", "-", "3", "4">>)]

\* the fields of an object in which each key is absent, empty or set
PartialFields(c) ==
  LET F[i \in 0..Len(PartialKeys)] ==
        IF i = 0 THEN <<>>
        ELSE IF c[PartialKeys[i]] = "absent" THEN F[i - 1]
        ELSE Append(F[i - 1],
                    Field(PartialKeys[i],
                          IF c[PartialKeys[i]] = "empty" THEN Str(<<>>)
                          ELSE StoredSample[PartialKeys[i]]))
  IN F[Len(PartialKeys)]

InitRead ==
  /\ mode = "read"
  /\ \E c \in [{PartialKeys[i] : i \in 1..Len(PartialKeys)} -> {"absent", "empty", "set"}] :
       objects = <<Metaobject(1, PartialFields(c), "ACTIVE")>>
  /\ index = [p \in Products |-> Null]
  /\ req = <<>>
  /\ submission = NotYet /\ created = NotYet /\ fetched = NotYet
  /\ reviews = NotYet /\ stats = NotYet /\ pub = NotYet
  /\ svc = NotYet /\ server = NotYet /\ limiter = NotYet

NextRead ==
  \E id \in {MetaobjectId(1), MetaobjectId(2)}, outcome \in {"ok", "throw"} :
    fetchMetaobject(id, outcome)

SpecRead == InitRead /\ [][NextRead]_vars

\* the stored key each typed key of the record is read from
StoredKeyOf ==
  [rating |-> "rating", fitRating |-> "fit_rating", shippingRating |-> "shipping_rating",
   isVerifiedBuyer |-> "is_verified_buyer", isApproved |-> "is_approved",
   recommendsProduct |-> "recommends_product", createdAt |-> "created_at",
   authorName |-> "author_name", authorEmail |-> "author_email", title |-> "title",
   body |-> "body", ageRange |-> "age_range", sizePurchased |-> "size_purchased",
   image |-> "image", video |-> "video"]

\* the object holds no value, or the empty string, under the stored key
AbsentOrEmpty(m, key) ==
  \A i \in 1..Len(m.fields) : m.fields[i].key = key => m.fields[i].value = Str(<<>>)

\* C21: the record getMetaobjectById makes of an object the platform holds
\* has null under every typed key whose stored key the object lacks or holds
\* empty, rating, fitRating and shippingRating included, and is made whatever
\* fields the object holds.
C21_AbsentOrEmptyIsNull ==
  (mode = "read" /\ fetched # NotYet /\ fetched.outcome = "ok" /\ fetched.held) =>
    /\ fetched.result # Null
    /\ \A k \in TypedKeys :
         AbsentOrEmpty(ObjectById(fetched.id), StoredKeyOf[k]) => fetched.result[k] = Null

-----------------------------------------------------------------------------
(* The listing of a product's reviews.                                       *)

\* the ids held in the rating index of the product a route parameter names:
\* none for no such product and for an index that is absent, empty or not JSON
ListedIds(param) ==
  LET p == parseInt(param)
  IN IF p = NaN \/ p.num \notin Products THEN <<>>
     ELSE IF index[p.num] = Null \/ index[p.num] = Str(<<>>) \/ ~JSONparse(index[p.num]).ok
     THEN <<>>
     ELSE IndexIds(p.num)

\* the positions of the ids whose fetch did not throw and whose object exists
Yielding(rq, ids) ==
  SelectSeq([i \in 1..Len(ids) |-> i],
            LAMBDA i : rq.calls[i + 1].outcome = "ok" /\ ObjectById(ids[i]) # Null)

\* C22: a listing whose product query succeeds is answered 200 with the
\* records, in index order, of exactly the ids of the product's index whose
\* fetch gives an object; an id whose object is missing or whose fetch throws is
\* left out, and an absent, empty or unparsable index gives the empty list.
C22_ListingInIndexOrder ==
  [][(mode = "server" /\ server' # server) =>
       LET rq == server'.served[Len(server'.served)]
           ids == ListedIds(rq.param)
           kept == Yielding(rq, ids)
       IN (rq.endpoint = "getProductReviews" /\ rq.calls # <<>> /\ rq.calls[1].outcome = "ok") =>
            /\ Len(rq.calls) = 1 + Len(ids)
            /\ rq.responses = <<[status |-> 200,
                                 json |-> [success |-> TRUE,
                                           data |-> [j \in 1..Len(kept) |->
                                                       ReviewRecord(Selected(ObjectById(ids[kept[j]])))]]]>>
            /\ \A j \in 1..Len(kept) : rq.responses[1].json.data[j].id = ids[kept[j]]
  ]_vars

\* the index holds two ids; after the object of the first was deleted, a
\* listing whose fetches all return gives the record of the second alone
C22_Witness ==
  /\ mode = "server" /\ Len(server.served) = 2
  /\ index[1] = JSONstringify(<<MetaobjectId(2), MetaobjectId(1)>>)
  /\ ObjectById(MetaobjectId(2)) = Null
  /\ server.served[2].endpoint = "getProductReviews"
  /\ server.served[2].param = Str(<<"1">>)
  /\ \A i \in 1..3 : server.served[2].calls[i].outcome = "ok"
  /\ Len(server.served[2].responses[1].json.data) = 1
  /\ server.served[2].responses[1].json.data[1].id = MetaobjectId(1)

-----------------------------------------------------------------------------
(* What the submission path does to the rating objects.                      *)

\* the requests that were answered 201
Succeeded(rs) == {r \in DOMAIN rs : rs[r].pc = "done" /\ rs[r].response.status = 201}

\* C23: no step of a submission changes or removes a rating object the
\* platform already holds (its fields and its status stay as they are), a step
\* adds at most one object, and after any sequence of submissions each one that
\* was answered 201 has created exactly one object, the platform holding one
\* new object per create that succeeded.
C23_SubmissionOnlyCreates ==
  [][InRequestMode =>
       /\ Len(objects') \in {Len(objects), Len(objects) + 1}
       /\ \A n \in 1..Len(objects) : objects'[n] = objects[n]
       /\ \A r \in Succeeded(req') :
            /\ Cardinality({n \in 1..Len(objects') : objects'[n].id = req'[r].created.id}) = 1
            /\ Cardinality({i \in 1..Len(req'[r].calls) : req'[r].calls[i].call = "create"}) = 1
            /\ \A q \in Succeeded(req') : q # r => req'[q].created.id # req'[r].created.id
       /\ Len(objects') = 1 + Cardinality({r \in DOMAIN req' : req'[r].created # NotYet})
  ]_vars

\* two submissions answered 201: the object held before them is as it was and
\* two objects were added
C23_Witness ==
  /\ mode = "create"
  /\ Succeeded(req) = {1, 2}
  /\ Len(objects) = 3
  /\ objects[1] = Metaobject(1, LegacyFields, "ACTIVE")
  /\ {objects[2].id, objects[3].id} = {req[1].created.id, req[2].created.id}

-----------------------------------------------------------------------------
(* The moderation update.                                                    *)

\* C24: when updateReview with the body {isApproved: true} is answered 200,
\* the object of that id holds "true" under is_approved, the key the read
\* mapping takes isApproved from.
C24_UpdateApproves ==
  [][(mode = "server" /\ server' # server) =>
       LET rq == server'.served[Len(server'.served)]
       IN (rq.endpoint = "updateReview" /\ rq.body # Undefined
           /\ rq.body.isApproved = Bool(TRUE) /\ rq.responses[1].status = 200) =>
            \E n \in 1..Len(objects') :
              /\ objects'[n] # Null
              /\ objects'[n].id = rq.param
              /\ FieldsObject(objects'[n].fields)["is_approved"] = Str(TrueStr)
              /\ ReviewRecord(objects'[n]).isApproved = Bool(TRUE)
  ]_vars

-----------------------------------------------------------------------------
(* The answer of createReview and the two writes behind it.                  *)

\* the positions of the calls of request r with that name and outcome "ok"
OkCalls(r, name) ==
  {i \in 1..Len(req[r].calls) : req[r].calls[i].call = name /\ req[r].calls[i].outcome = "ok"}

\* the id is among the characters of the index of some product
Indexed(id) == \E p \in Products : index[p] # Null /\ Contains(index[p].str, id.str)

\* C25: a request is answered 201 only when its object create and, after it,
\* its index write have succeeded; a request whose index write fails after
\* its create succeeded is answered 500, makes no call after the failed write,
\* and leaves the object it created on the platform and in no product's index.
C25_AnsweredAfterBothWrites ==
  \A r \in DOMAIN req :
    (mode = "create" /\ Done(r)) =>
      /\ Status(r) = 201 =>
           /\ OkCalls(r, "create") # {}
           /\ OkCalls(r, "write") = {Len(req[r].calls)}
           /\ \A i \in OkCalls(r, "create") : i < Len(req[r].calls)
      /\ (OkCalls(r, "create") # {} /\ FailedCalls(r, {"write"}) # {}) =>
           /\ Status(r) = 500
           /\ FailedCalls(r, {"write"}) = {Len(req[r].calls)}
           /\ \E n \in 1..Len(objects) : objects[n] = req[r].created
           /\ ~Indexed(req[r].created.id)

\* one request answered 201 and one whose write failed: the platform holds
\* the objects of both, the index only the id of the first
C25_Witness ==
  /\ mode = "create"
  /\ Done(1) /\ Status(1) = 201
  /\ Done(2) /\ Status(2) = 500 /\ OkCalls(2, "create") # {} /\ FailedCalls(2, {"write"}) # {}
  /\ \E n \in 1..Len(objects) : objects[n].id = req[2].created.id
  /\ Indexed(req[1].created.id) /\ ~Indexed(req[2].created.id)

-----------------------------------------------------------------------------
(* The lifecycle scenario: a review that is linked into the index of a       *)
(* product is deleted by a moderator, before, while or after a submission    *)
(* for the product is handled.                                               *)

Linked == MetaobjectId(1)

InitLifecycle ==
  /\ mode = "lifecycle"
  /\ objects = <<Metaobject(1, LegacyFields, "ACTIVE")>>
  /\ index = [p \in Products |-> IF p = 1 THEN JSONstringify(<<Linked>>) ELSE Null]
  /\ req = <<IdleRequest>>
  /\ submission = NotYet /\ created = NotYet /\ fetched = NotYet
  /\ reviews = NotYet /\ stats = NotYet /\ pub = NotYet /\ svc = NotYet
  /\ server = [alive |-> TRUE, served |-> <<>>]
  /\ limiter = NotYet

NextLifecycle ==
  \/ deleteReview(Linked)
  \/ NextCreate

SpecLifecycle == InitLifecycle /\ [][NextLifecycle]_vars

\* a step that serves a deleteReview leaves every index as it is; when it is
\* answered 200 the object is gone and its id is still in the index that held it
DeleteKeepsIndex ==
  (mode = "lifecycle" /\ server' # server) =>
    /\ index' = index
    /\ server'.served[Len(server'.served)].responses[1].status = 200 =>
         /\ \A n \in 1..Len(objects') : objects'[n] = Null \/ objects'[n].id # Linked
         /\ \A p \in Products :
              (index[p] # Null /\ Contains(index[p].str, Linked.str)) =>
                Contains(index'[p].str, Linked.str)

\* request r writes the index of its product while the index holds the id of
\* the deleted object
WritesOverDangling(r) ==
  /\ mode = "lifecycle"
  /\ req[r].pc = "write" /\ req'[r].pc = "done" /\ req'[r].response.status = 201
  /\ ObjectById(Linked) = Null
  /\ index[req[r].value.productId.num] # Null
  /\ Contains(index[req[r].value.productId.num].str, Linked.str)

-----------------------------------------------------------------------------
(* The link step after a failed read of the index.                           *)

\* C27: when the read of the index fails, whether the query throws or the
\* product is missing, the link step goes on to the write with the empty list;
\* the write is the next call, and when it succeeds the index is the new id
\* alone, the id of no other object being left in it.
C27_FailedReadOverwrites ==
  [][\A r \in DOMAIN req :
       LET p == req[r].value.productId.num
       IN /\ (mode = "create" /\ req[r].pc = "read" /\ req'[r].pc # "read"
              /\ req'[r].calls[Len(req'[r].calls)].outcome # "ok") =>
                /\ req'[r].pc = "write"
                /\ req'[r].existing = [arr |-> <<>>]
          /\ (mode = "create" /\ req[r].pc = "write" /\ req'[r].pc # "write"
              /\ FailedCalls(r, {"read"}) # {}) =>
                /\ req'[r].calls = Append(req[r].calls, req'[r].calls[Len(req'[r].calls)])
                /\ req'[r].calls[Len(req'[r].calls)].call = "write"
                /\ req'[r].calls[Len(req'[r].calls)].outcome = "ok" =>
                     /\ index'[p] = JSONstringify(<<req[r].created.id>>)
                     /\ \A n \in 1..Len(objects) :
                          objects[n].id # req[r].created.id =>
                            ~Contains(index'[p].str, objects[n].id.str)
  ]_vars

\* the index of the product held the id of an older review; a submission whose
\* read threw was answered 201 and the index is its id alone
C27_Witness ==
  /\ mode = "create"
  /\ \E r \in DOMAIN req :
       /\ Done(r) /\ Status(r) = 201
       /\ \E i \in FailedCalls(r, {"read"}) : req[r].calls[i].outcome = "throw"
       /\ req[r].value.productId.num = 1
       /\ index[2] = JSONstringify(<<MetaobjectId(1)>>)
       /\ index[1] = JSONstringify(<<req[r].created.id>>)

-----------------------------------------------------------------------------
(* The two media fields of createProductRating.                              *)

\* request r is past the media uploads of createProductRating
MediaSettled(r) ==
  /\ req[r].value # NotYet
  /\ req[r].pc \in {"create", "read", "write", "done"}
  /\ req[r].pc = "done" => req[r].response.status \in {201, 500}

\* the three phases of the upload of a media field of r all succeeded
Uploaded(r, media) ==
  \A p \in 1..3 :
    \E i \in PhaseCalls(r, media, Phases[p]) : req[r].calls[i].outcome = "ok"

\* C28: once the uploads of a submission are over, its field list has an
\* image entry exactly when an image was supplied and the three phases of its
\* upload succeeded, and a video entry exactly when a video was supplied and the
\* three phases of its upload succeeded; when a video was supplied its upload
\* has been attempted, whatever became of the image.
C28_MediaFieldsIndependent ==
  \A r \in DOMAIN req :
    (mode = "upload" /\ MediaSettled(r)) =>
      /\ \A media \in {"image", "video"} :
           media \in FieldKeys(req[r].fields)
             <=> (Truthy(req[r].value[media]) /\ Uploaded(r, media))
      /\ Truthy(req[r].value.video) => PhaseCalls(r, "video", "stage") # {}
      /\ ~Truthy(req[r].value.video) => PhaseCalls(r, "video", "stage") = {}

\* a submission with both media answered 201: the stage of the image was
\* rejected, the video was uploaded, and the object has the video field alone
C28_Witness ==
  /\ mode = "upload"
  /\ \E r \in DOMAIN req :
       /\ Done(r) /\ Status(r) = 201
       /\ Truthy(req[r].value.image) /\ Truthy(req[r].value.video)
       /\ \E i \in PhaseCalls(r, "image", "stage") : req[r].calls[i].outcome = "userErrors"
       /\ Uploaded(r, "video")
       /\ FieldKeys(ObjectById(req[r].created.id).fields) \cap {"image", "video"} = {"video"}

-----------------------------------------------------------------------------
(* The distribution and the total of getReviewStats.                         *)

\* the positions of the approved records whose rating is not one of 1..5
OutOfRangeAt == {i \in ApprovedAt : reviews[i].rating.num \notin 1..5}

RECURSIVE SumOver(_, _)
\* the sum of f over the numbers from..5
SumOver(f, from) == IF from > 5 THEN 0 ELSE f[from] + SumOver(f, from + 1)

RECURSIVE SumInRange(_)
\* the sum of the ratings at the positions, a rating outside 1..5 taken as 0
SumInRange(positions) ==
  IF positions = {} THEN 0
  ELSE LET i == CHOOSE i \in positions : TRUE
       IN (IF i \in OutOfRangeAt THEN 0 ELSE reviews[i].rating.num)
          + SumInRange(positions \ {i})

\* the counts of the distribution sum to the total less the approved records
\* rated outside 1..5, each of which is in the total and in no bucket
DistributionAndTotal ==
  LET data == stats.json.data
  IN /\ SumOver(data.ratingDistribution, 1) <= data.totalReviews
     /\ OutOfRangeAt = {} => SumOver(data.ratingDistribution, 1) = data.totalReviews
     /\ data.totalReviews = Cardinality(ApprovedAt)
     /\ SumOver(data.ratingDistribution, 1) = Cardinality(ApprovedAt \ OutOfRangeAt)

\* averageRating is the rounding to tenths of sum / the number of approved records
AverageOf(sum) ==
  LET n == Cardinality(ApprovedAt)
      k == stats.json.data.averageRating.tenths
  IN n > 0 => (2 * n * k <= 20 * sum + n /\ 20 * sum + n < 2 * n * (k + 1))

\* C29 as stated: the counts of ratingDistribution sum to at most totalReviews
\* and to exactly totalReviews when every approved rating is in 1..5; an
\* approved record whose rating is not in 1..5 is in totalReviews, in no bucket,
\* and enters the average as 0.
C29_OutOfRangeAveragedAsZero ==
  StatsAnswered => (DistributionAndTotal /\ AverageOf(SumInRange(ApprovedAt)))

\* C29: the counts of ratingDistribution sum to at most totalReviews and to
\* exactly totalReviews when every approved rating is in 1..5; an approved
\* record whose rating is not in 1..5 is in totalReviews, in no bucket, and
\* enters the average with the number its stored rating parses to, which is 0
\* when the stored rating is not a number.
C29_OutOfRangeAveragedAsParsed ==
  StatsAnswered =>
    /\ DistributionAndTotal
    /\ AverageOf(SumRatings(ApprovedAt))
    /\ \A f \in StoredFields :
         ~IsDigit(f.rating.str[1]) => StatsRecord(f).rating = Num(0)

\* three approved records, rated 5, 7 and a rating that is not a number:
\* the total is 3, the one bucket count is 1 and the average 4.0
C29_Witness ==
  /\ StatsAnswered /\ Len(reviews) = 3 /\ ApprovedAt = {1, 2, 3}
  /\ {reviews[i].rating : i \in 1..3} = {Num(5), Num(7), Num(0)}
  /\ stats.json.data.totalReviews = 3
  /\ SumOver(stats.json.data.ratingDistribution, 1) = 1
  /\ stats.json.data.averageRating = Tenths(40)

====
